---- MODULE Spec2Model ----
(***************************************************************************)
(* llm-meter: the refresh-and-consistency engine.                          *)
(*                                                                         *)
(*   - Storage (src/src/storage.rs): two tables, replace_snapshot and      *)
(*     aggregate_since.                                                    *)
(*   - MeterService (src/src/service.rs): refresh.                         *)
(*   - The interactive loop (src/src/ui/run.rs): key handling and the      *)
(*     single-slot connection-test job.                                    *)
(*                                                                         *)
(* Text (provider names, model names, form fields) is a sequence of        *)
(* one-character strings, so that trimming, lower-casing and comparison    *)
(* are computed the way the code computes them.  Instants are hours since  *)
(* an epoch; a stored timestamp is the zero-padded text of the instant and *)
(* the tables compare timestamps as text, as the SQL does.                 *)
(***************************************************************************)
EXTENDS Integers, Sequences, FiniteSets, TLC

VARIABLES
    usage_records,      \* table usage_records, in id order
    cost_records,       \* table cost_records, in id order
    pc,                 \* "idle", or "returned": a replace_snapshot call has just returned
    last_call,          \* the arguments of that call, and how many rows it deleted
    result,             \* "none", or how that call returned: "ok" / "err"
    tx_dirty,           \* its transaction had changed its view of the tables
    repeated,           \* it repeated the Ok call just before it
    refresh_call,       \* the refresh that has just returned: what it was given and
                        \* what it returned
    phase,              \* "shell": commands are run; "tui": run_loop is running
    state,              \* AppState of run_loop
    cfg,                \* AppConfig: the configuration file, and run_loop's copy of it
    keyring,            \* the OS keyring: provider name -> API key
    provider_test_job,  \* run_loop's job slot: <<>> or <<job>>
    tasks,              \* spawned test tasks that are still running
    appended,           \* per provider, every entry handed to append_provider_log by
                        \* the direct calls of the log
    pricing_call,       \* the resolve_pricing call just made: its arguments and result
    aggregate_call,     \* the aggregate_since call just made: its argument and result
    direct_call         \* the direct call just made of another function: its name,
                        \* its arguments and its result

storeVars == <<usage_records, cost_records, pc, last_call, result, tx_dirty, repeated>>

uiVars == <<phase, state, cfg, keyring, provider_test_job, tasks, appended>>

vars == <<usage_records, cost_records, pc, last_call, result, tx_dirty, repeated,
          refresh_call, phase, state, cfg, keyring, provider_test_job, tasks, appended,
          pricing_call, aggregate_call, direct_call>>

-----------------------------------------------------------------------------
(* Bounds of the model *)

MaxTime  == 1      \* instants 0..MaxTime
MaxRows  == 2      \* rows a table may hold

-----------------------------------------------------------------------------
(* Text *)

OPENAI    == <<"o", "p", "e", "n", "a", "i">>
ANTHROPIC == <<"a", "n", "t", "h", "r", "o", "p", "i", "c">>
GPT_4O    == <<"g", "p", "t", "-", "4", "o">>
CLAUDE_3_5_SONNET ==
    <<"c", "l", "a", "u", "d", "e", "-", "3", "-", "5", "-", "s", "o", "n", "n", "e", "t">>
USD == <<"U", "S", "D">>

Range(s) == {s[i] : i \in DOMAIN s}


RECURSIVE SumSeq(_)
SumSeq(s) == IF s = <<>> THEN 0 ELSE Head(s) + SumSeq(Tail(s))

\* Byte-wise text comparison (SQLite's BINARY collation): a < b.
RECURSIVE TextLess(_, _)
TextLess(a, b) ==
    IF b = <<>> THEN FALSE
    ELSE IF a = <<>> THEN TRUE
    ELSE IF Head(a) # Head(b) THEN Head(a) < Head(b)
    ELSE TextLess(Tail(a), Tail(b))

TextGE(a, b) == ~TextLess(a, b)

\* DateTime<Utc>::to_rfc3339 on the modelled instants: fixed-width, zero-padded
\* decimal digits, most significant first.
to_rfc3339(t) == <<(t \div 1000) % 10, (t \div 100) % 10, (t \div 10) % 10, t % 10>>

-----------------------------------------------------------------------------
(* Records handed to the store (src/src/models.rs) *)

Times     == 0..MaxTime
Providers == {OPENAI, ANTHROPIC}

ModelOf(provider) == IF provider = OPENAI THEN GPT_4O ELSE CLAUDE_3_5_SONNET

\* The unit tests' fixtures: 100 tokens / cost 1.0 at hour 1, 250 / 2.5 at hour 2.
SampleAmount(ts) == 100 + 150 * ts

\* Costs are counted in units of 10^-8 dollar, in which a token count times a price
\* per million tokens given in cents is exact.
Cents(c) == c * 1000000

sample_usage(provider, ts) ==
    [provider |-> provider, model |-> ModelOf(provider),
     input_tokens |-> SampleAmount(ts), output_tokens |-> 0, cached_tokens |-> 0,
     timestamp |-> ts]

sample_cost(provider, ts) ==
    [provider |-> provider, model |-> ModelOf(provider),
     input_cost |-> Cents(SampleAmount(ts)), output_cost |-> 0,
     total_cost |-> Cents(SampleAmount(ts)), currency |-> USD, timestamp |-> ts]

-----------------------------------------------------------------------------
(* Storage (src/src/storage.rs) *)

\* The row an INSERT writes: the record with its timestamp as text.
StoredRow(r) == [r EXCEPT !.timestamp = to_rfc3339(r.timestamp)]

Stored(records) == [i \in DOMAIN records |-> StoredRow(records[i])]

\* Mutants of DeleteWhere: a DELETE that removes nothing, and one that forgets the
\* provider.
DeleteWhere_nothing(rows, provider, since_str) == rows

DeleteWhere_any_provider(rows, provider, since_str) ==
    SelectSeq(rows, LAMBDA r : ~TextGE(r.timestamp, since_str))

\* DELETE FROM t WHERE provider = ? AND timestamp >= ?
DeleteWhere(rows, provider, since_str) ==
    SelectSeq(rows, LAMBDA r : ~(r.provider = provider /\ TextGE(r.timestamp, since_str)))

\* The statements replace_snapshot executes inside its transaction, in order.
TxSteps(since, providers, usage, cost) ==
    LET since_str == to_rfc3339(since)
        deletes == [i \in 1..(2 * Len(providers)) |->
                       [op |-> IF i % 2 = 1 THEN "delete_usage" ELSE "delete_cost",
                        provider |-> providers[(i + 1) \div 2],
                        since_str |-> since_str]]
        ins_u == [i \in 1..Len(usage) |-> [op |-> "insert_usage", row |-> StoredRow(usage[i])]]
        ins_c == [i \in 1..Len(cost) |-> [op |-> "insert_cost", row |-> StoredRow(cost[i])]]
    IN  deletes \o ins_u \o ins_c \o <<[op |-> "commit"]>>

ApplyStep(db, step) ==
    CASE step.op = "delete_usage" ->
            [db EXCEPT !.usage = DeleteWhere(db.usage, step.provider, step.since_str)]
      [] step.op = "delete_cost" ->
            [db EXCEPT !.cost = DeleteWhere(db.cost, step.provider, step.since_str)]
      [] step.op = "insert_usage" -> [db EXCEPT !.usage = Append(db.usage, step.row)]
      [] step.op = "insert_cost" -> [db EXCEPT !.cost = Append(db.cost, step.row)]
      [] OTHER -> db

\* The transaction's view of the tables after the first k statements.
RECURSIVE RunTx(_, _, _)
RunTx(db, steps, k) ==
    IF k = 0 THEN db ELSE ApplyStep(RunTx(db, steps, k - 1), steps[k])

\* replace_snapshot with statement number fail_at failing (0: none fails).  A failing
\* statement returns through `?`, which drops the transaction, and a dropped
\* transaction rolls back; `work` is the transaction's view as the call returns.
replace_snapshot_no_rollback(db, since, providers, usage, cost, fail_at) ==
    LET steps == TxSteps(since, providers, usage, cost)
        work  == RunTx(db, steps, IF fail_at = 0 THEN Len(steps) ELSE fail_at - 1)
    IN  [ok |-> fail_at = 0, db |-> work, dirty |-> work # db]

replace_snapshot(db, since, providers, usage, cost, fail_at) ==
    LET steps == TxSteps(since, providers, usage, cost)
        work  == RunTx(db, steps, IF fail_at = 0 THEN Len(steps) ELSE fail_at - 1)
    IN  [ok |-> fail_at = 0, db |-> IF fail_at = 0 THEN work ELSE db, dirty |-> work # db]

Db == [usage |-> usage_records, cost |-> cost_records]

InWindow(rows, since) ==
    SelectSeq(rows, LAMBDA r : TextGE(r.timestamp, to_rfc3339(since)))

OfProvider(rows, provider) == SelectSeq(rows, LAMBDA r : r.provider = provider)

Max(a, b) == IF a > b THEN a ELSE b

Min(a, b) == IF a < b THEN a ELSE b

ModelLimit == 10     \* LIMIT 10 of the query by model

TotalCost(rows) == SumSeq([i \in DOMAIN rows |-> rows[i].total_cost])

\* SELECT key, SUM(total_cost) ... GROUP BY key: the sum of every key of the rows.
GroupSums(rows, key) ==
    [k \in {rows[i][key] : i \in DOMAIN rows} |->
        TotalCost(SelectSeq(rows, LAMBDA r : r[key] = k))]

Position(s, x) == CHOOSE i \in DOMAIN s : s[i] = x

\* ORDER BY c DESC, as (key, sum) pairs.  SQL leaves the order of groups with equal
\* sums open: `ties` lists the keys in the order the database returns equal ones.
RECURSIVE OrderByDesc(_, _)
OrderByDesc(sums, ties) ==
    IF DOMAIN sums = {} THEN <<>>
    ELSE LET first == CHOOSE k \in DOMAIN sums : \A j \in DOMAIN sums \ {k} :
                          \/ sums[k] > sums[j]
                          \/ sums[k] = sums[j] /\ Position(ties, k) < Position(ties, j)
         IN  <<<<first, sums[first]>>>>
               \o OrderByDesc([k \in DOMAIN sums \ {first} |-> sums[k]], ties)

\* LIMIT n
Limit(s, n) == SubSeq(s, 1, Min(n, Len(s)))

\* Mutant of aggregate_since: the window's boundary is excluded.
aggregate_since_after(db, since, ties) ==
    LET Later(rows) == SelectSeq(rows, LAMBDA r : TextLess(to_rfc3339(since), r.timestamp))
        u == Later(db.usage)
        c == Later(db.cost)
    IN  [tokens |-> Max(SumSeq([i \in DOMAIN u |->
                        u[i].input_tokens + u[i].output_tokens + u[i].cached_tokens]), 0),
         cost |-> TotalCost(c),
         by_provider |-> OrderByDesc(GroupSums(c, "provider"), ties),
         by_model |-> Limit(OrderByDesc(GroupSums(c, "model"), ties), ModelLimit)]

\* aggregate_since: the token total, the cost total, the cost by provider and the
\* cost by model.
aggregate_since(db, since, ties) ==
    LET u == InWindow(db.usage, since)
        c == InWindow(db.cost, since)
    IN  [tokens |-> Max(SumSeq([i \in DOMAIN u |->
                        u[i].input_tokens + u[i].output_tokens + u[i].cached_tokens]), 0),
         cost |-> TotalCost(c),
         by_provider |-> OrderByDesc(GroupSums(c, "provider"), ties),
         by_model |-> Limit(OrderByDesc(GroupSums(c, "model"), ties), ModelLimit)]

-----------------------------------------------------------------------------
(* Pricing (src/src/pricing.rs) and cost derivation (src/src/providers/mod.rs) *)

UpperCase == <<"A", "B", "C", "D", "E", "F", "G", "H", "I", "J", "K", "L", "M",
               "N", "O", "P", "Q", "R", "S", "T", "U", "V", "W", "X", "Y", "Z">>
LowerCase == <<"a", "b", "c", "d", "e", "f", "g", "h", "i", "j", "k", "l", "m",
               "n", "o", "p", "q", "r", "s", "t", "u", "v", "w", "x", "y", "z">>

AsciiLower == [c \in Range(UpperCase) |->
                  LowerCase[CHOOSE k \in DOMAIN UpperCase : UpperCase[k] = c]]

to_ascii_lowercase(s) ==
    [i \in DOMAIN s |-> IF s[i] \in DOMAIN AsciiLower THEN AsciiLower[s[i]] ELSE s[i]]

eq_ignore_ascii_case(a, b) == to_ascii_lowercase(a) = to_ascii_lowercase(b)

\* str::contains
Contains(s, pat) ==
    \E i \in 0..(Len(s) - Len(pat)) : SubSeq(s, i + 1, i + Len(pat)) = pat

GPT_4O_MINI == GPT_4O \o <<"-", "m", "i", "n", "i">>
CLAUDE_3_5_HAIKU ==
    <<"c", "l", "a", "u", "d", "e", "-", "3", "-", "5", "-", "h", "a", "i", "k", "u">>
UNKNOWN == <<"u", "n", "k", "n", "o", "w", "n">>

\* Prices per million tokens, in cents.
built_in_pricing ==
    << [provider |-> OPENAI, model_pattern |-> GPT_4O,
        input_per_1m |-> 500, output_per_1m |-> 1500],
       [provider |-> OPENAI, model_pattern |-> GPT_4O_MINI,
        input_per_1m |-> 15, output_per_1m |-> 60],
       [provider |-> ANTHROPIC, model_pattern |-> CLAUDE_3_5_SONNET,
        input_per_1m |-> 300, output_per_1m |-> 1500],
       [provider |-> ANTHROPIC, model_pattern |-> CLAUDE_3_5_HAIKU,
        input_per_1m |-> 80, output_per_1m |-> 400] >>

\* Iterator::find on the elements satisfying its predicate: the first of them, as an
\* Option (<<element>> or <<>>).
First(hits) == IF hits = <<>> THEN <<>> ELSE <<Head(hits)>>

\* Mutant of resolve_pricing: the built-in table is searched before the overrides.
resolve_pricing_built_in_first(provider, model, overrides) ==
    LET hit == First(SelectSeq(built_in_pricing \o overrides,
                    LAMBDA p : eq_ignore_ascii_case(p.provider, provider)
                               /\ Contains(model, p.model_pattern)))
    IN  IF hit = <<>> THEN <<>> ELSE <<[hit[1] EXCEPT !.provider = provider]>>

\* Mutant of resolve_pricing: the last matching override wins.
resolve_pricing_last_override(provider, model, overrides) ==
    LET hits == SelectSeq(overrides,
                    LAMBDA o : eq_ignore_ascii_case(o.provider, provider)
                               /\ Contains(model, o.model_pattern))
    IN  IF hits # <<>>
        THEN <<[hits[Len(hits)] EXCEPT !.provider = provider]>>
        ELSE First(SelectSeq(built_in_pricing,
                    LAMBDA p : eq_ignore_ascii_case(p.provider, provider)
                               /\ Contains(model, p.model_pattern)))

\* The result is an Option: <<pricing>> or <<>>.
resolve_pricing(provider, model, overrides) ==
    LET ov == First(SelectSeq(overrides,
                    LAMBDA o : eq_ignore_ascii_case(o.provider, provider)
                               /\ Contains(model, o.model_pattern)))
    IN  IF ov # <<>>
        THEN <<[provider |-> provider, model_pattern |-> ov[1].model_pattern,
                input_per_1m |-> ov[1].input_per_1m, output_per_1m |-> ov[1].output_per_1m]>>
        ELSE First(SelectSeq(built_in_pricing,
                    LAMBDA p : eq_ignore_ascii_case(p.provider, provider)
                               /\ Contains(model, p.model_pattern)))

\* Mutant of derive_costs: a usage row without a price yields a cost row of zero.
RECURSIVE derive_costs_zero_cost(_, _, _)
derive_costs_zero_cost(name, usage, overrides) ==
    IF usage = <<>> THEN <<>>
    ELSE LET u == Head(usage)
             pricing == resolve_pricing(name, u.model, overrides)
             input_cost == IF pricing = <<>> THEN 0
                           ELSE u.input_tokens * pricing[1].input_per_1m
             output_cost == IF pricing = <<>> THEN 0
                            ELSE u.output_tokens * pricing[1].output_per_1m
         IN  <<[provider |-> u.provider, model |-> u.model,
                input_cost |-> input_cost, output_cost |-> output_cost,
                total_cost |-> input_cost + output_cost,
                currency |-> USD, timestamp |-> u.timestamp]>>
             \o derive_costs_zero_cost(name, Tail(usage), overrides)

RECURSIVE derive_costs(_, _, _)
derive_costs(name, usage, overrides) ==
    IF usage = <<>> THEN <<>>
    ELSE LET u == Head(usage)
             pricing == resolve_pricing(name, u.model, overrides)
             rest == derive_costs(name, Tail(usage), overrides)
         IN  IF pricing = <<>> THEN rest
             ELSE LET input_cost == u.input_tokens * pricing[1].input_per_1m
                      output_cost == u.output_tokens * pricing[1].output_per_1m
                  IN  <<[provider |-> u.provider, model |-> u.model,
                         input_cost |-> input_cost, output_cost |-> output_cost,
                         total_cost |-> input_cost + output_cost,
                         currency |-> USD, timestamp |-> u.timestamp]>> \o rest

-----------------------------------------------------------------------------
(* MeterService::refresh (src/src/service.rs) *)

as_hours(window) ==
    CASE window = "OneDay" -> 24
      [] window = "SevenDays" -> 24 * 7
      [] window = "ThirtyDays" -> 24 * 30

Adapters == <<OPENAI, ANTHROPIC>>

\* Mutant of IsEnabled: no name is ever found in the list.
IsEnabled_never(config, name) == FALSE

\* Mutant of IsEnabled: the names are compared as written.
IsEnabled_exact(config, name) ==
    \E i \in DOMAIN config.enabled_providers : config.enabled_providers[i] = name

IsEnabled(config, name) ==
    \E i \in DOMAIN config.enabled_providers :
        eq_ignore_ascii_case(config.enabled_providers[i], name)

\* The loop over the adapters from adapter number i on.  env.keys are the providers
\* whose key the keyring returns and env.fetch[name] is what fetch_usage returns for
\* the adapter: an error, or its rows.  `?` leaves the loop at the first error.
RECURSIVE RefreshLoop(_, _, _)
RefreshLoop(env, i, acc) ==
    IF i > Len(Adapters) THEN acc
    ELSE LET name == Adapters[i] IN
         IF ~IsEnabled(env.cfg, name) THEN RefreshLoop(env, i + 1, acc)
         ELSE IF name \notin env.keys THEN [acc EXCEPT !.error = "key", !.provider = name]
         ELSE IF ~env.fetch[name].ok
              THEN [acc EXCEPT !.error = "fetch", !.provider = name]
         ELSE LET rows == env.fetch[name].rows
                  rows_cost == derive_costs(name, rows, env.cfg.pricing_overrides)
              IN  RefreshLoop(env, i + 1,
                      [acc EXCEPT !.usage = @ \o rows,
                                  !.cost = @ \o rows_cost,
                                  !.refreshed_providers = Append(@, name)])

NoSnapshot == [usage |-> <<>>, cost |-> <<>>]

\* Mutant of refresh: what was fetched before the error is stored all the same.
refresh_store_partial(db, env, window, refresh_end, fail_at) ==
    LET since == refresh_end - as_hours(window)
        got == RefreshLoop(env, 1, [usage |-> <<>>, cost |-> <<>>,
                                    refreshed_providers |-> <<>>,
                                    error |-> "none", provider |-> <<>>])
        r == replace_snapshot(db, since, got.refreshed_providers, got.usage, got.cost,
                              fail_at)
    IN  [status |-> IF r.ok /\ got.error = "none" THEN "ok" ELSE "err",
         error |-> IF got.error # "none" THEN got.error
                   ELSE IF r.ok THEN "none" ELSE "storage",
         provider |-> got.provider,
         stored |-> TRUE, store |-> r, since |-> since,
         refreshed_providers |-> got.refreshed_providers,
         usage |-> got.usage, cost |-> got.cost,
         snapshot |-> IF r.ok /\ got.error = "none"
                      THEN [usage |-> got.usage, cost |-> got.cost] ELSE NoSnapshot]

\* refresh: `stored` tells whether replace_snapshot was called, and `store` is what
\* it returned.
refresh(db, env, window, refresh_end, fail_at) ==
    LET since == refresh_end - as_hours(window)
        Returned(got, r) ==
            IF got.error # "none"
            THEN [status |-> "err", error |-> got.error, provider |-> got.provider,
                  stored |-> FALSE, store |-> [ok |-> FALSE, db |-> db, dirty |-> FALSE],
                  since |-> since, refreshed_providers |-> got.refreshed_providers,
                  usage |-> got.usage, cost |-> got.cost, snapshot |-> NoSnapshot]
            ELSE [status |-> IF r.ok THEN "ok" ELSE "err",
                  error |-> IF r.ok THEN "none" ELSE "storage", provider |-> <<>>,
                  stored |-> TRUE, store |-> r, since |-> since,
                  refreshed_providers |-> got.refreshed_providers,
                  usage |-> got.usage, cost |-> got.cost,
                  snapshot |-> IF r.ok THEN [usage |-> got.usage, cost |-> got.cost]
                               ELSE NoSnapshot]
        AfterStore(got) ==
            CHOOSE ret \in {Returned(got, r) :
                       r \in {replace_snapshot(db, since, got.refreshed_providers,
                                               got.usage, got.cost, fail_at)}} : TRUE
    IN  CHOOSE ret \in {AfterStore(got) :
               got \in {RefreshLoop(env, 1, [usage |-> <<>>, cost |-> <<>>,
                                             refreshed_providers |-> <<>>,
                                             error |-> "none", provider |-> <<>>])}} : TRUE

\* What refresh is given: a configuration, a window, the time, and the answers of
\* the keyring and of the providers' APIs.
OPENAI_MIXED == <<"O", "p", "e", "n", "A", "I">>

EnabledLists == {<<>>, <<OPENAI>>, <<ANTHROPIC>>, <<OPENAI, ANTHROPIC>>, <<OPENAI_MIXED>>}

PricingOverrides ==
    {<<>>, <<[provider |-> OPENAI, model_pattern |-> <<"g", "p", "t">>,
              input_per_1m |-> 100, output_per_1m |-> 200]>>}

Windows == {"OneDay", "SevenDays", "ThirtyDays"}

\* The clock when refresh reads it: one of a few consecutive days.
RefreshEnds == {as_hours("ThirtyDays") + as_hours("OneDay") * t : t \in 0..MaxTime}

fetched_row(name, model, ts) ==
    [provider |-> name, model |-> model,
     input_tokens |-> 1000, output_tokens |-> 500, cached_tokens |-> 0,
     timestamp |-> ts]

\* fetch_usage of an adapter: an error, no row, a row of a priced model stamped with
\* the start of its daily bucket, a row without model and without timestamp, which
\* the adapter stamps with refresh_end, or such a row followed by a priced one.
FetchErr == [ok |-> FALSE, rows |-> <<>>]

FetchOk(rows) == [ok |-> TRUE, rows |-> rows]

FetchResults(name, since, refresh_end) ==
    {FetchErr, FetchOk(<<>>),
     FetchOk(<<fetched_row(name, ModelOf(name), refresh_end - as_hours("OneDay"))>>),
     FetchOk(<<fetched_row(name, UNKNOWN, refresh_end)>>),
     FetchOk(<<fetched_row(name, UNKNOWN, refresh_end),
               fetched_row(name, ModelOf(name), refresh_end - as_hours("OneDay"))>>)}

\* The answers refresh can meet.  An adapter that is not enabled or has no key is
\* never fetched: its answer is left at the error.
Envs(config, since, refresh_end) ==
    LET Answers(P, keys) ==
            IF P \in keys THEN FetchResults(P, since, refresh_end) ELSE {FetchErr}
    IN  UNION {{[cfg |-> config, keys |-> keys,
                 fetch |-> (OPENAI :> fo @@ ANTHROPIC :> fa)] :
                    fo \in Answers(OPENAI, keys), fa \in Answers(ANTHROPIC, keys)} :
               keys \in SUBSET {P \in Range(Adapters) : IsEnabled(config, P)}}

NoRefresh ==
    [called |-> FALSE,
     env |-> [cfg |-> [enabled_providers |-> <<>>, pricing_overrides |-> <<>>],
              keys |-> {}, fetch |-> [P \in Range(Adapters) |-> FetchErr]],
     window |-> "OneDay", refresh_end |-> 0,
     status |-> "none", error |-> "none", provider |-> <<>>, snapshot |-> NoSnapshot]

-----------------------------------------------------------------------------
(* Provider names, the configuration and the keyring (src/src/config.rs) *)

Digits == <<"0", "1", "2", "3", "4", "5", "6", "7", "8", "9">>

\* The characters of the model's text, in ASCII order.
Ascii == <<" ", "-", ".", "/">> \o Digits \o <<":">> \o UpperCase \o <<"_">> \o LowerCase

AsciiCode == [c \in Range(Ascii) |-> CHOOSE k \in DOMAIN Ascii : Ascii[k] = c]

\* Ord of String: byte-wise.
StrLess(a, b) ==
    TextLess([i \in 1..Len(a) |-> AsciiCode[a[i]]], [i \in 1..Len(b) |-> AsciiCode[b[i]]])

RECURSIVE trim_start(_)
trim_start(s) == IF s # <<>> /\ Head(s) = " " THEN trim_start(Tail(s)) ELSE s

RECURSIVE trim_end(_)
trim_end(s) ==
    IF s # <<>> /\ s[Len(s)] = " " THEN trim_end(SubSeq(s, 1, Len(s) - 1)) ELSE s

\* str::trim
trim(s) == trim_end(trim_start(s))

normalize_provider_name(provider) ==
    LET t == trim(provider) IN IF t = <<>> THEN <<>> ELSE to_ascii_lowercase(t)

\* HashMap: a function on the set of its keys.
EmptyMap == [k \in {} |-> k]

Insert(map, key, value) ==
    [k \in DOMAIN map \cup {key} |-> IF k = key THEN value ELSE map[k]]

Remove(map, key) == [k \in DOMAIN map \ {key} |-> map[k]]

\* ProviderSettings: two Options, <<>> or <<text>>.
ProviderSettingsDefault == [base_url |-> <<>>, organization_id |-> <<>>]

AppConfigDefault ==
    [enabled_providers |-> <<>>, provider_settings |-> EmptyMap, pricing_overrides |-> <<>>]

\* Vec::retain(|p| !p.eq_ignore_ascii_case(provider))
retain_other(list, provider) ==
    SelectSeq(list, LAMBDA p : ~eq_ignore_ascii_case(p, provider))

\* What the outside world answers while one handler runs: the keyring backend works
\* or not, the configuration file can be written or not.
set_api_key(kr, provider, key, io) ==
    IF io.keyring_ok
    THEN [ok |-> TRUE, keyring |-> Insert(kr, normalize_provider_name(provider), key)]
    ELSE [ok |-> FALSE, keyring |-> kr]

delete_api_key(kr, provider, io) ==
    IF io.keyring_ok
    THEN [ok |-> TRUE, keyring |-> Remove(kr, normalize_provider_name(provider))]
    ELSE [ok |-> FALSE, keyring |-> kr]

\* "true", "false", or "err".
has_api_key(kr, provider, io) ==
    LET normalized == normalize_provider_name(provider) IN
    IF ~io.keyring_ok THEN "err"
    ELSE IF normalized \in DOMAIN kr /\ kr[normalized] # <<>> THEN "true" ELSE "false"

\* An Option: <<key>>, or <<>> for the error.  No <NAME>_API_KEY variable is set in
\* the environment of the modelled process.
get_api_key(kr, provider, io) ==
    LET normalized == normalize_provider_name(provider) IN
    IF io.keyring_ok /\ normalized \in DOMAIN kr /\ kr[normalized] # <<>>
    THEN <<kr[normalized]>> ELSE <<>>

save_config(io) == io.save_ok

-----------------------------------------------------------------------------
(* AppState (src/src/ui/app.rs) *)

MaxProviderLogs == 1     \* AppState::default's max_provider_logs, scaled down from 100

NoMode == [kind |-> "None", provider |-> <<>>]
Add == [kind |-> "Add", provider |-> <<>>]
Edit(provider) == [kind |-> "Edit", provider |-> provider]

NoAction == [kind |-> "None", provider |-> <<>>]
Quit == [kind |-> "Quit", provider |-> <<>>]
DeleteProvider(provider) == [kind |-> "DeleteProvider", provider |-> provider]
DeleteKey(provider) == [kind |-> "DeleteKey", provider |-> provider]

Dashboard == [kind |-> "Dashboard", mode |-> NoMode, action |-> NoAction]
ProviderManager == [kind |-> "ProviderManager", mode |-> NoMode, action |-> NoAction]
ProviderForm(mode) == [kind |-> "ProviderForm", mode |-> mode, action |-> NoAction]
Confirm(action) == [kind |-> "Confirm", mode |-> NoMode, action |-> action]
ErrorDialog == [kind |-> "ErrorDialog", mode |-> NoMode, action |-> NoAction]
InfoDialog == [kind |-> "InfoDialog", mode |-> NoMode, action |-> NoAction]

NotTested == [kind |-> "NotTested", message |-> ""]
Testing == [kind |-> "Testing", message |-> ""]
Success == [kind |-> "Success", message |-> ""]
Failure(message) == [kind |-> "Failure", message |-> message]

\* A message shown to the user: its fixed text, the provider name formatted into it
\* and the error text formatted into it.
Msg(text, provider, detail) == [text |-> text, provider |-> provider, detail |-> detail]

NoMsg == Msg("", <<>>, "")

ProviderDraftDefault ==
    [name |-> <<>>, base_url |-> <<>>, organization_id |-> <<>>, api_key |-> <<>>,
     enabled |-> FALSE, active_field |-> 0, show_advanced |-> FALSE,
     connection_status |-> NotTested]

\* DashboardView: the totals and the time of the last refresh (an Option: <<>> is
\* "never").
DashboardViewDefault ==
    [tokens |-> 0, cost |-> 0, provider_breakdown |-> <<>>, model_breakdown |-> <<>>,
     last_refresh |-> <<>>]

AppStateDefault ==
    [running |-> TRUE, window |-> "SevenDays", status |-> Msg("ready", <<>>, ""),
     compact_mode |-> FALSE, view |-> DashboardViewDefault,
     screen |-> Dashboard, previous_screen |-> Dashboard,
     action_focused |-> FALSE, action_selected |-> 0,
     provider_selected |-> 0, confirm_selected |-> 0,
     provider_draft |-> ProviderDraftDefault,
     provider_test_results |-> EmptyMap, provider_logs |-> EmptyMap,
     max_provider_logs |-> MaxProviderLogs, log_scroll |-> 0,
     error_message |-> NoMsg, info_message |-> NoMsg]

\* ProviderLogEntry without its wall-clock stamp; http_status and duration are
\* Options.
ProviderLogEntry(level, event, detail, http_status, duration) ==
    [level |-> level, event |-> event, detail |-> detail,
     http_status |-> http_status, duration |-> duration]

\* Vec::drain(0..n)
drain_front(logs, n) == SubSeq(logs, n + 1, Len(logs))

\* Mutant of append_provider_log: the newest entries are dropped, not the oldest.
append_provider_log_drop_newest(st, provider, level, event, detail, http_status, duration) ==
    LET key == normalize_provider_name(provider)
        entry == ProviderLogEntry(level, event, detail, http_status, duration)
        old == IF key \in DOMAIN st.provider_logs THEN st.provider_logs[key] ELSE <<>>
        logs == Append(old, entry)
    IN  IF key = <<>> THEN st
        ELSE [st EXCEPT !.provider_logs =
                 Insert(@, key, IF Len(logs) > st.max_provider_logs
                                THEN SubSeq(logs, 1, st.max_provider_logs)
                                ELSE logs)]

\* Mutant of append_provider_log: an append that overflows evicts the oldest entry
\* of every log.
append_provider_log_evict_all(st, provider, level, event, detail, http_status, duration) ==
    LET key == normalize_provider_name(provider)
        entry == ProviderLogEntry(level, event, detail, http_status, duration)
        old == IF key \in DOMAIN st.provider_logs THEN st.provider_logs[key] ELSE <<>>
        logs == Append(old, entry)
    IN  IF key = <<>> THEN st
        ELSE IF Len(logs) > st.max_provider_logs
        THEN [st EXCEPT !.provider_logs =
                 Insert([q \in DOMAIN @ |-> drain_front(@[q], 1)], key,
                        drain_front(logs, Len(logs) - st.max_provider_logs))]
        ELSE [st EXCEPT !.provider_logs = Insert(@, key, logs)]

append_provider_log(st, provider, level, event, detail, http_status, duration) ==
    LET key == normalize_provider_name(provider)
        entry == ProviderLogEntry(level, event, detail, http_status, duration)
        old == IF key \in DOMAIN st.provider_logs THEN st.provider_logs[key] ELSE <<>>
        logs == Append(old, entry)
    IN  IF key = <<>> THEN st
        ELSE [st EXCEPT !.provider_logs =
                 Insert(@, key, IF Len(logs) > st.max_provider_logs
                                THEN drain_front(logs, Len(logs) - st.max_provider_logs)
                                ELSE logs)]

UiInit ==
    /\ phase = "shell"
    /\ state = AppStateDefault
    /\ cfg = AppConfigDefault
    /\ keyring = EmptyMap
    /\ provider_test_job = <<>>
    /\ tasks = 0
    /\ appended = EmptyMap

-----------------------------------------------------------------------------
(* Direct calls of the store, as the unit tests of storage.rs make them *)

ProviderLists == {<<>>, <<OPENAI>>, <<ANTHROPIC>>, <<OPENAI, ANTHROPIC>>}

\* A batch: the fixture rows of some providers at one instant, a usage row and its
\* cost row each.
SampleBatches == {[i \in DOMAIN ps |-> <<ps[i], ts>>] : ps \in ProviderLists, ts \in Times}

UsageOf(batch) == [i \in DOMAIN batch |-> sample_usage(batch[i][1], batch[i][2])]
CostOf(batch)  == [i \in DOMAIN batch |-> sample_cost(batch[i][1], batch[i][2])]

NoCall == [since |-> 0, providers |-> <<>>, usage |-> <<>>, cost |-> <<>>,
           deleted_usage |-> 0, deleted_cost |-> 0]

RefreshInit == refresh_call = NoRefresh

StoreInit ==
    /\ usage_records = <<>>
    /\ cost_records = <<>>
    /\ pc = "idle"
    /\ last_call = NoCall
    /\ result = "none"
    /\ tx_dirty = FALSE
    /\ repeated = FALSE

\* One call of replace_snapshot, from its entry to its return.
Call(since, providers, usage, cost, is_repeat) ==
    \E fail_at \in 0..(2 * Len(providers) + Len(usage) + Len(cost) + 1) :
        \E r \in {replace_snapshot(Db, since, providers, usage, cost, fail_at)} :
            /\ Len(r.db.usage) <= MaxRows
            /\ Len(r.db.cost) <= MaxRows
            /\ usage_records' = r.db.usage
            /\ cost_records' = r.db.cost
            /\ pc' = "returned"
            /\ result' = IF r.ok THEN "ok" ELSE "err"
            /\ tx_dirty' = r.dirty
            /\ repeated' = (is_repeat /\ r.ok)
            /\ last_call' =
                  [since |-> since, providers |-> providers, usage |-> usage, cost |-> cost,
                   deleted_usage |-> Len(usage_records) + Len(usage) - Len(r.db.usage),
                   deleted_cost |-> Len(cost_records) + Len(cost) - Len(r.db.cost)]
            /\ UNCHANGED <<refresh_call, pricing_call, aggregate_call, direct_call, uiVars>>

\* A caller hands replace_snapshot a window, a provider list and two batches.
ReplaceSnapshot ==
    /\ pc = "idle"
    /\ \E since \in Times, providers \in ProviderLists, batch \in SampleBatches :
          Call(since, providers, UsageOf(batch), CostOf(batch), FALSE)

\* The caller makes the call that has just returned Ok once more.
RepeatSnapshot ==
    /\ pc = "returned"
    /\ result = "ok"
    /\ Call(last_call.since, last_call.providers, last_call.usage, last_call.cost, TRUE)

\* The caller is done with the outcome of the call.
Return ==
    /\ pc = "returned"
    /\ pc' = "idle"
    /\ last_call' = NoCall
    /\ result' = "none"
    /\ tx_dirty' = FALSE
    /\ repeated' = FALSE
    /\ refresh_call' = NoRefresh
    /\ UNCHANGED <<usage_records, cost_records, pricing_call, aggregate_call, direct_call, uiVars>>

\* One refresh, from its entry to its return.
Refresh ==
    /\ pc = "idle"
    /\ \E enabled \in EnabledLists, overrides \in PricingOverrides,
          window \in Windows, refresh_end \in RefreshEnds :
        \E env \in Envs([enabled_providers |-> enabled, pricing_overrides |-> overrides],
                        refresh_end - as_hours(window), refresh_end) :
          \E r0 \in {refresh(Db, env, window, refresh_end, 0)} :
            \* the store works, or (when it is called) its commit fails
            \E fail_at \in {0} \cup (IF r0.stored
                                      THEN {2 * Len(r0.refreshed_providers)
                                            + Len(r0.usage) + Len(r0.cost) + 1}
                                      ELSE {}) :
              \E r \in {IF fail_at = 0 THEN r0
                        ELSE refresh(Db, env, window, refresh_end, fail_at)} :
                /\ Len(r.store.db.usage) <= MaxRows
                /\ Len(r.store.db.cost) <= MaxRows
                /\ usage_records' = r.store.db.usage
                /\ cost_records' = r.store.db.cost
                /\ pc' = "returned"
                /\ result' = IF ~r.stored THEN "none" ELSE IF r.store.ok THEN "ok" ELSE "err"
                /\ tx_dirty' = (r.stored /\ r.store.dirty)
                /\ repeated' = FALSE
                /\ last_call' =
                      IF ~r.stored THEN NoCall
                      ELSE [since |-> r.since, providers |-> r.refreshed_providers,
                            usage |-> r.usage, cost |-> r.cost,
                            deleted_usage |-> Len(usage_records) + Len(r.usage)
                                                - Len(r.store.db.usage),
                            deleted_cost |-> Len(cost_records) + Len(r.cost)
                                               - Len(r.store.db.cost)]
                /\ refresh_call' =
                      [called |-> TRUE, env |-> env, window |-> window,
                       refresh_end |-> refresh_end,
                       status |-> r.status, error |-> r.error, provider |-> r.provider,
                       snapshot |-> r.snapshot]
                /\ UNCHANGED <<pricing_call, aggregate_call, direct_call, uiVars>>

NoPricing == [called |-> FALSE, provider |-> <<>>, model |-> <<>>, overrides |-> <<>>,
              result |-> <<>>]

PricingInit == pricing_call = NoPricing

NoAggregate ==
    [called |-> FALSE, since |-> 0,
     result |-> [tokens |-> 0, cost |-> 0, by_provider |-> <<>>, by_model |-> <<>>]]

AggregateCallInit == aggregate_call = NoAggregate

NoDirectCall == [op |-> "none"]

DirectCallInit == direct_call = NoDirectCall

Init ==
    StoreInit /\ RefreshInit /\ UiInit /\ PricingInit /\ AggregateCallInit /\ DirectCallInit

StoreNext == ReplaceSnapshot \/ RepeatSnapshot \/ Return

SpecStore == Init /\ [][StoreNext]_vars

RefreshNext == Refresh \/ Return

SpecRefresh == Init /\ [][RefreshNext]_vars

-----------------------------------------------------------------------------
(* Direct calls of resolve_pricing (src/src/pricing.rs) *)

MaxOverrides == 2    \* pricing overrides in the configuration

\* Overrides a configuration file may list: a provider written in another case, a
\* pattern inside the name of one model only, the empty pattern, and a pattern in
\* another case than the model names.
OverrideEntries ==
    {[provider |-> OPENAI_MIXED, model_pattern |-> <<"g", "p", "t">>,
      input_per_1m |-> 100, output_per_1m |-> 200],
     [provider |-> OPENAI, model_pattern |-> <<"m", "i", "n", "i">>,
      input_per_1m |-> 7, output_per_1m |-> 9],
     [provider |-> ANTHROPIC, model_pattern |-> <<>>,
      input_per_1m |-> 1, output_per_1m |-> 2],
     [provider |-> OPENAI, model_pattern |-> <<"G", "P", "T">>,
      input_per_1m |-> 3, output_per_1m |-> 4]}

OverrideLists ==
    UNION {[1..n -> OverrideEntries] : n \in 0..MaxOverrides}

PricingProviders == {OPENAI, OPENAI_MIXED, ANTHROPIC}

PricingModels == {GPT_4O, GPT_4O_MINI, CLAUDE_3_5_SONNET, CLAUDE_3_5_HAIKU, UNKNOWN}

\* One call of resolve_pricing.
ResolvePricing ==
    \E provider \in PricingProviders, model \in PricingModels,
       overrides \in OverrideLists :
        /\ pricing_call' = [called |-> TRUE, provider |-> provider, model |-> model,
                            overrides |-> overrides,
                            result |-> resolve_pricing(provider, model, overrides)]
        /\ UNCHANGED <<storeVars, refresh_call, aggregate_call, direct_call, uiVars>>

PricingNext == ResolvePricing

SpecPricing == Init /\ [][PricingNext]_vars

-----------------------------------------------------------------------------
(* Direct calls of aggregate_since on stored tables (src/src/storage.rs) *)

\* All orders of the elements of a set.
Orders(S) ==
    {s \in [1..Cardinality(S) -> S] : \A i, j \in DOMAIN s : s[i] = s[j] => i = j}

Reverse(s) == [i \in DOMAIN s |-> s[Len(s) + 1 - i]]

usage_row(input_tokens, output_tokens, cached_tokens, ts) ==
    [provider |-> OPENAI, model |-> GPT_4O,
     input_tokens |-> input_tokens, output_tokens |-> output_tokens,
     cached_tokens |-> cached_tokens, timestamp |-> ts]

cost_row(provider, model, total_cost, ts) ==
    [provider |-> provider, model |-> model,
     input_cost |-> total_cost, output_cost |-> 0, total_cost |-> total_cost,
     currency |-> USD, timestamp |-> ts]

\* Tables of a few rows: two providers, three models, equal and unequal costs,
\* timestamps before, at and after `since`.
FewUsageRows == {usage_row(1, 2, 4, ts) : ts \in Times}

FewCostRows ==
    {cost_row(pm[1], pm[2], Cents(c), ts) :
        pm \in {<<OPENAI, GPT_4O>>, <<OPENAI, GPT_4O_MINI>>,
                 <<ANTHROPIC, CLAUDE_3_5_SONNET>>},
        c \in {1, 2}, ts \in Times}

TablesOf(rows) == UNION {[1..n -> rows] : n \in 0..MaxRows}

\* A table of ModelLimit + 1 models of one provider: model number i costs
\* ((i + shift) mod (ModelLimit + 1)) + 1, or (flat) every model costs the same; all
\* rows are stamped `ts` but the row of model number `early`, stamped 0.
NumberedModel(i) == <<"m", "-", Digits[(i \div 10) + 1], Digits[(i % 10) + 1]>>

NumberedModels == [i \in 1..(ModelLimit + 1) |-> NumberedModel(i)]

ManyModels(shift, flat, early, ts) ==
    [i \in 1..(ModelLimit + 1) |->
        cost_row(OPENAI, NumberedModel(i),
                 Cents(IF flat THEN 1 ELSE ((i + shift) % (ModelLimit + 1)) + 1),
                 IF i = early THEN 0 ELSE ts)]

AggregateStores ==
    {[usage |-> Stored(uc[1]), cost |-> Stored(uc[2])] :
        uc \in {t \in TablesOf(FewUsageRows) \X TablesOf(FewCostRows) :
                    t[1] = <<>> \/ Len(t[2]) <= 1}}
    \cup {[usage |-> <<>>, cost |-> Stored(ManyModels(shift, FALSE, early, ts))] :
             shift \in 0..ModelLimit, early \in {0, 1, ModelLimit + 1}, ts \in Times}
    \cup {[usage |-> <<>>, cost |-> Stored(ManyModels(0, TRUE, 0, ts))] : ts \in Times}

\* The orders in which the database may return groups of equal sums: any order of
\* the providers, any order of the three models, and the numbered models in
\* ascending or descending order.
AggregateTies ==
    {p \o f \o NumberedModels :
        p \in Orders(Providers), f \in Orders({GPT_4O, GPT_4O_MINI, CLAUDE_3_5_SONNET})}
    \cup {Reverse(NumberedModels) \o Adapters \o <<GPT_4O, GPT_4O_MINI, CLAUDE_3_5_SONNET>>}

AggregateInit ==
    /\ \E db \in AggregateStores :
          /\ usage_records = db.usage
          /\ cost_records = db.cost
    /\ pc = "idle"
    /\ last_call = NoCall
    /\ result = "none"
    /\ tx_dirty = FALSE
    /\ repeated = FALSE
    /\ RefreshInit
    /\ UiInit
    /\ PricingInit
    /\ AggregateCallInit
    /\ DirectCallInit

\* One call of aggregate_since.
AggregateSince ==
    \E since \in Times, ties \in AggregateTies :
        /\ aggregate_call' = [called |-> TRUE, since |-> since,
                              result |-> aggregate_since(Db, since, ties)]
        /\ UNCHANGED <<storeVars, refresh_call, pricing_call, direct_call, uiVars>>

AggregateNext == AggregateSince

SpecAggregate == AggregateInit /\ [][AggregateNext]_vars

-----------------------------------------------------------------------------
(* Properties of the store *)

CountOf(rows, r) == Cardinality({i \in DOMAIN rows : rows[i] = r})

SameRows(a, b) == \A r \in Range(a) \cup Range(b) : CountOf(a, r) = CountOf(b, r)

\* The batches of the call that has just returned, as rows.
LastBatch == [usage |-> Stored(last_call.usage), cost |-> Stored(last_call.cost)]

\* The orders in which the database may return groups of equal sums: any order of
\* the providers and any order of their models.
StoreTies ==
    {<<p, q, ModelOf(m), ModelOf(n)>> :
        <<p, q, m, n>> \in {t \in Providers \X Providers \X Providers \X Providers :
                               t[1] # t[2] /\ t[3] # t[4]}}

\* The rows a table held before the n rows inserted last.
KeptRows(rows, n) == SubSeq(rows, 1, Len(rows) - n)

\* C1: after an Ok replace_snapshot call that names provider P (and so after any
\* sequence of such calls with the same `since`), the stored usage and cost rows of P
\* with timestamp >= since are exactly that last call's rows of P in the window; and
\* when the window holds rows of the named providers only, aggregate_since(since)
\* reports the totals of the last call's batches, not a sum over several calls.
C1_NoDoubleCounting ==
    result = "ok" =>
        /\ \A P \in Range(last_call.providers) :
              /\ OfProvider(InWindow(usage_records, last_call.since), P)
                    = OfProvider(InWindow(LastBatch.usage, last_call.since), P)
              /\ OfProvider(InWindow(cost_records, last_call.since), P)
                    = OfProvider(InWindow(LastBatch.cost, last_call.since), P)
        /\ (\A r \in Range(InWindow(usage_records, last_call.since))
                    \cup Range(InWindow(cost_records, last_call.since)) :
                r.provider \in Range(last_call.providers))
             => \A ties \in StoreTies :
                    aggregate_since(Db, last_call.since, ties)
                      = aggregate_since(LastBatch, last_call.since, ties)

\* C1 witness: an Ok call for openai has deleted an earlier usage row and cost row of
\* its window and inserted the 250-token row; the total is 250, not 350.
C1_Witness ==
    /\ result = "ok"
    /\ last_call.providers = <<OPENAI>>
    /\ last_call.deleted_usage = 1
    /\ last_call.deleted_cost = 1
    /\ Len(last_call.usage) = 1
    /\ \A ties \in StoreTies :
          /\ aggregate_since(Db, last_call.since, ties).tokens = 250
          /\ aggregate_since(Db, last_call.since, ties).cost = Cents(250)

Protected(r, call) ==
    \/ r.provider \notin Range(call.providers)
    \/ TextLess(r.timestamp, to_rfc3339(call.since))

\* C2: an Ok replace_snapshot(since, providers, ...) keeps, unaltered and in order,
\* every usage and cost row whose provider is not in `providers` or whose timestamp is
\* earlier than `since`: the rows it found and kept include all of them.
C2_OnlyTargetedRowsRemoved ==
    [][result' = "ok" =>
         /\ SelectSeq(KeptRows(usage_records', Len(last_call'.usage)),
                      LAMBDA r : Protected(r, last_call'))
               = SelectSeq(usage_records, LAMBDA r : Protected(r, last_call'))
         /\ SelectSeq(KeptRows(cost_records', Len(last_call'.cost)),
                      LAMBDA r : Protected(r, last_call'))
               = SelectSeq(cost_records, LAMBDA r : Protected(r, last_call'))]_vars

\* C2 witness: a call restricted to openai has deleted a row and inserted one, and an
\* anthropic row of the same window is among the rows it kept, in both tables.
C2_Witness ==
    /\ result = "ok"
    /\ last_call.providers = <<OPENAI>>
    /\ Len(last_call.usage) = 1
    /\ last_call.deleted_usage = 1
    /\ last_call.deleted_cost = 1
    /\ \E r \in Range(KeptRows(usage_records, Len(last_call.usage))) :
          r.provider = ANTHROPIC /\ TextGE(r.timestamp, to_rfc3339(last_call.since))
    /\ \E r \in Range(KeptRows(cost_records, Len(last_call.cost))) :
          r.provider = ANTHROPIC /\ TextGE(r.timestamp, to_rfc3339(last_call.since))

\* C3: replace_snapshot is all-or-nothing: a call that returns an error leaves both
\* tables as they were, and a call that returns Ok has applied every delete and every
\* insert (each table is the protected rows it held, followed by the whole batch).
C3_AllOrNothing ==
    [][/\ result' = "err" => (usage_records' = usage_records /\ cost_records' = cost_records)
       /\ result' = "ok" =>
             /\ usage_records' = SelectSeq(usage_records, LAMBDA r : Protected(r, last_call'))
                                    \o LastBatch'.usage
             /\ cost_records' = SelectSeq(cost_records, LAMBDA r : Protected(r, last_call'))
                                    \o LastBatch'.cost]_vars

\* C3 witness: a call has failed after its transaction had changed the tables, and
\* the tables hold rows.
C3_Witness ==
    /\ result = "err"
    /\ tx_dirty
    /\ usage_records # <<>>
    /\ cost_records # <<>>

\* C7 as claimed: performing the same replace_snapshot call again leaves the same
\* multiset of usage and cost rows, whatever the batches.
C7_Original ==
    [][repeated' => (SameRows(usage_records', usage_records)
                     /\ SameRows(cost_records', cost_records))]_vars

BatchInsideWindow(call) ==
    \A r \in Range(Stored(call.usage)) \cup Range(Stored(call.cost)) : ~Protected(r, call)

\* C7 amended: performing the same replace_snapshot call again leaves the same rows,
\* provided every row of its batches has its provider in `providers` and a timestamp
\* >= since.
C7_RepeatInsideWindow ==
    [][(repeated' /\ BatchInsideWindow(last_call'))
         => (usage_records' = usage_records /\ cost_records' = cost_records)]_vars

\* C7 witness: an Ok call with a non-empty batch inside its own window has just been
\* repeated.
C7_Witness ==
    /\ repeated
    /\ last_call.usage # <<>>
    /\ last_call.cost # <<>>
    /\ BatchInsideWindow(last_call)

\* The enabled providers whose key lookup or fetch fails in the refresh just made.
FailingProviders(call) ==
    {P \in Range(Adapters) :
        /\ IsEnabled(call.env.cfg, P)
        /\ (P \notin call.env.keys \/ ~call.env.fetch[P].ok)}

\* C4: when the API-key lookup or fetch_usage fails for an enabled provider, refresh
\* returns the error of such a provider (a key error for one without a key, a fetch
\* error for one whose fetch fails), replace_snapshot is not called, and both tables
\* are exactly what they were before the refresh.
C4_RefreshFailFast ==
    [][(refresh_call'.called /\ FailingProviders(refresh_call') # {}) =>
          /\ refresh_call'.status = "err"
          /\ refresh_call'.provider \in FailingProviders(refresh_call')
          /\ \/ refresh_call'.error = "key"
                  /\ refresh_call'.provider \notin refresh_call'.env.keys
             \/ refresh_call'.error = "fetch"
                  /\ refresh_call'.provider \in refresh_call'.env.keys
                  /\ ~refresh_call'.env.fetch[refresh_call'.provider].ok
          /\ result' = "none"
          /\ last_call' = NoCall
          /\ usage_records' = usage_records
          /\ cost_records' = cost_records]_vars

\* C4 witness: with both providers enabled, openai was fetched successfully with a
\* row, then the fetch of anthropic failed; refresh has returned that error, and the
\* tables hold the rows of an earlier refresh.
C4_Witness ==
    /\ refresh_call.called
    /\ refresh_call.status = "err"
    /\ refresh_call.error = "fetch"
    /\ refresh_call.provider = ANTHROPIC
    /\ OPENAI \in refresh_call.env.keys
    /\ refresh_call.env.fetch[OPENAI].rows # <<>>
    /\ result = "none"
    /\ usage_records # <<>>
    /\ cost_records # <<>>

\* The usage rows of a batch for whose provider and model a price resolves.
PricedRows(usage, overrides) ==
    SelectSeq(usage, LAMBDA u : resolve_pricing(u.provider, u.model, overrides) # <<>>)

\* The rows a table holds at its end: the n rows inserted last.
NewRows(rows, n) == SubSeq(rows, Len(rows) - n + 1, Len(rows))

\* C14: the cost rows a refresh derives are one per usage row whose price resolves,
\* in the order of those usage rows, and none for a row whose model has no price; such
\* a row is no error: a refresh none of whose providers fails and whose store call
\* does not fail returns Ok, and it has stored every fetched usage row, the unpriced
\* ones without any cost row (no cost row of the unpriced model, none of zero cost).
C14_UnpricedRowsSkipped ==
    refresh_call.called =>
        LET overrides == refresh_call.env.cfg.pricing_overrides
            usage == refresh_call.snapshot.usage
            cost == refresh_call.snapshot.cost
            priced == PricedRows(usage, overrides)
        IN  /\ (FailingProviders(refresh_call) = {} /\ result # "err")
                  => refresh_call.status = "ok"
            /\ refresh_call.status = "ok" =>
                  /\ Len(cost) = Len(priced)
                  /\ \A i \in DOMAIN cost :
                        /\ cost[i].provider = priced[i].provider
                        /\ cost[i].model = priced[i].model
                        /\ cost[i].timestamp = priced[i].timestamp
                        /\ cost[i].total_cost > 0
                  /\ usage = [i \in DOMAIN usage |->
                                refresh_call.env.fetch[usage[i].provider].rows[
                                    Cardinality({j \in 1..i :
                                        usage[j].provider = usage[i].provider})]]
                  /\ NewRows(usage_records, Len(usage)) = Stored(usage)
                  /\ NewRows(cost_records, Len(cost)) = Stored(cost)
                  /\ \A u \in Range(usage) \ Range(priced), c \in Range(cost) :
                        ~(c.provider = u.provider /\ c.model = u.model)

\* C14 witness: an Ok refresh has fetched from openai a row of an unknown model
\* followed by a gpt-4o row; both usage rows are stored, and the one cost row derived
\* and stored is the gpt-4o row's.
C14_Witness ==
    /\ refresh_call.called
    /\ refresh_call.status = "ok"
    /\ Len(refresh_call.snapshot.usage) = 2
    /\ refresh_call.snapshot.usage[1].model = UNKNOWN
    /\ refresh_call.snapshot.usage[2].model = GPT_4O
    /\ Len(refresh_call.snapshot.cost) = 1
    /\ refresh_call.snapshot.cost[1].model = GPT_4O
    /\ NewRows(usage_records, 2) = Stored(refresh_call.snapshot.usage)
    /\ cost_records = Stored(refresh_call.snapshot.cost)

\* The instant a stored timestamp denotes.
Instant(ts) == ts[1] * 1000 + ts[2] * 100 + ts[3] * 10 + ts[4]

Since(rows, since) == SelectSeq(rows, LAMBDA r : Instant(r.timestamp) >= since)

\* The sum of total_cost over the rows whose `key` is k.
CostWhere(rows, key, k) ==
    SumSeq([i \in DOMAIN rows |-> IF rows[i][key] = k THEN rows[i].total_cost ELSE 0])

\* `list` names keys of the rows, each once and with its sum, largest sum first.
IsDescendingListOf(list, rows, key) ==
    /\ \A i \in DOMAIN list :
          /\ \E n \in DOMAIN rows : rows[n][key] = list[i][1]
          /\ list[i][2] = CostWhere(rows, key, list[i][1])
    /\ \A i, j \in DOMAIN list : i < j =>
          list[i][1] # list[j][1] /\ list[i][2] >= list[j][2]

\* C18: aggregate_since(since) returns as total tokens the sum of input + output +
\* cached tokens over the usage rows stamped `since` or later, as total cost the sum
\* of total_cost over the cost rows stamped `since` or later, the cost of every
\* provider of those rows, largest first, and the cost of the ModelLimit models of
\* largest cost, largest first; with no row in the window the totals are zero and
\* the lists are empty.
C18_AggregateSince ==
    aggregate_call.called =>
        LET got == aggregate_call.result
            u == Since(usage_records, aggregate_call.since)
            c == Since(cost_records, aggregate_call.since)
            providers == {c[i].provider : i \in DOMAIN c}
            models == {c[i].model : i \in DOMAIN c}
            ModelCost(M) == CostWhere(c, "model", M)
            listed == {got.by_model[i][1] : i \in DOMAIN got.by_model}
        IN  /\ got.tokens = SumSeq([i \in DOMAIN u |-> u[i].input_tokens])
                              + SumSeq([i \in DOMAIN u |-> u[i].output_tokens])
                              + SumSeq([i \in DOMAIN u |-> u[i].cached_tokens])
            /\ got.cost = SumSeq([i \in DOMAIN c |-> c[i].total_cost])
            /\ IsDescendingListOf(got.by_provider, c, "provider")
            /\ Len(got.by_provider) = Cardinality(providers)
            /\ IsDescendingListOf(got.by_model, c, "model")
            /\ Len(got.by_model) = Min(ModelLimit, Cardinality(models))
            /\ \A M \in models \ listed : \A L \in listed : ModelCost(M) <= ModelCost(L)
            /\ (u = <<>> /\ c = <<>>) =>
                  got = [tokens |-> 0, cost |-> 0, by_provider |-> <<>>, by_model |-> <<>>]

\* C18 witness: the window starts at hour 1 and holds ModelLimit + 1 models, all
\* stamped hour 1; the model left out is number 4, the cheapest, and the list starts
\* with number 3, the dearest.
C18_Witness ==
    /\ aggregate_call.called
    /\ aggregate_call.since = 1
    /\ Len(cost_records) = ModelLimit + 1
    /\ \A i \in DOMAIN cost_records : cost_records[i].timestamp = to_rfc3339(1)
    /\ Len(aggregate_call.result.by_model) = ModelLimit
    /\ aggregate_call.result.by_model[1] = <<NumberedModel(3), Cents(ModelLimit + 1)>>
    /\ \A i \in DOMAIN aggregate_call.result.by_model :
          aggregate_call.result.by_model[i][1] # NumberedModel(4)
    /\ aggregate_call.result.cost = Cents(66)
    /\ aggregate_call.result.by_provider = <<<<OPENAI, Cents(66)>>>>

\* The known adapters, in their order, whose name is in the refresh's
\* enabled_providers ignoring ASCII case.
EnabledAdapters(call) ==
    SelectSeq(Adapters, LAMBDA P :
        \E name \in Range(call.env.cfg.enabled_providers) :
            to_ascii_lowercase(name) = to_ascii_lowercase(P))

\* C17: a refresh that returns Ok has fetched from exactly the known adapters whose
\* name is in enabled_providers ignoring ASCII case, and has passed exactly their
\* names to replace_snapshot; every other known provider is skipped: the snapshot
\* holds exactly the rows the enabled adapters returned, and the stored usage and
\* cost rows of a provider that is not enabled are what they were.
C17_OnlyEnabledRefreshed ==
    [][(refresh_call'.called /\ refresh_call'.status = "ok") =>
          /\ last_call'.providers = EnabledAdapters(refresh_call')
          /\ \A P \in Range(EnabledAdapters(refresh_call')) :
                OfProvider(refresh_call'.snapshot.usage, P) = refresh_call'.env.fetch[P].rows
          /\ \A P \in Range(Adapters) \ Range(EnabledAdapters(refresh_call')) :
                /\ OfProvider(refresh_call'.snapshot.usage, P) = <<>>
                /\ OfProvider(refresh_call'.snapshot.cost, P) = <<>>
                /\ OfProvider(usage_records', P) = OfProvider(usage_records, P)
                /\ OfProvider(cost_records', P) = OfProvider(cost_records, P)]_vars

\* C17 witness: with "OpenAI" alone enabled, an Ok refresh has named openai to
\* replace_snapshot, replaced a stored openai row by the fetched one, and the
\* anthropic rows of an earlier refresh, inside the window, are still stored.
C17_Witness ==
    /\ refresh_call.called
    /\ refresh_call.status = "ok"
    /\ refresh_call.env.cfg.enabled_providers = <<OPENAI_MIXED>>
    /\ last_call.providers = <<OPENAI>>
    /\ last_call.deleted_usage = 1
    /\ Len(refresh_call.snapshot.usage) = 1
    /\ \E r \in Range(usage_records) :
          r.provider = ANTHROPIC /\ TextGE(r.timestamp, to_rfc3339(last_call.since))
    /\ \E r \in Range(cost_records) :
          r.provider = ANTHROPIC /\ TextGE(r.timestamp, to_rfc3339(last_call.since))

\* The entry's provider equals the call's ignoring ASCII case, and its pattern is a
\* substring of the model.
Matches(entry, provider, model) ==
    /\ to_ascii_lowercase(entry.provider) = to_ascii_lowercase(provider)
    /\ \E i \in 1..(Len(model) + 1) : \E j \in (i - 1)..Len(model) :
          SubSeq(model, i, j) = entry.model_pattern

SamePrices(a, b) ==
    a.input_per_1m = b.input_per_1m /\ a.output_per_1m = b.output_per_1m

\* C15: whenever some override matches the call, resolve_pricing returns the prices
\* of a matching override, whether or not a built-in entry matches too.
C15_OverrideBeatsBuiltIn ==
    (/\ pricing_call.called
     /\ \E i \in DOMAIN pricing_call.overrides :
           Matches(pricing_call.overrides[i], pricing_call.provider, pricing_call.model))
      => /\ pricing_call.result # <<>>
         /\ \E i \in DOMAIN pricing_call.overrides :
               /\ Matches(pricing_call.overrides[i], pricing_call.provider,
                          pricing_call.model)
               /\ SamePrices(pricing_call.result[1], pricing_call.overrides[i])

\* C15 witness: gpt-4o of openai is priced by the override "gpt" written for
\* "OpenAI", although the built-in gpt-4o entry matches too and has other prices.
C15_Witness ==
    /\ pricing_call.called
    /\ pricing_call.provider = OPENAI
    /\ pricing_call.model = GPT_4O
    /\ Len(pricing_call.overrides) = 1
    /\ pricing_call.overrides[1].provider = OPENAI_MIXED
    /\ Matches(built_in_pricing[1], pricing_call.provider, pricing_call.model)
    /\ ~SamePrices(built_in_pricing[1], pricing_call.overrides[1])
    /\ pricing_call.result # <<>>
    /\ SamePrices(pricing_call.result[1], pricing_call.overrides[1])

\* The overrides in list order, then the built-in entries in table order.
Candidates(call) == call.overrides \o built_in_pricing

MatchingCandidates(call) ==
    {k \in DOMAIN Candidates(call) :
        Matches(Candidates(call)[k], call.provider, call.model)}

\* C16: resolve_pricing returns the first matching entry of the overrides in list
\* order followed by the built-in entries in table order (its pattern and prices),
\* and it returns nothing exactly when no entry matches.
C16_FirstMatchWins ==
    pricing_call.called =>
        /\ (pricing_call.result = <<>>) <=> (MatchingCandidates(pricing_call) = {})
        /\ pricing_call.result # <<>> =>
              \E k \in MatchingCandidates(pricing_call) :
                  /\ \A j \in MatchingCandidates(pricing_call) : k <= j
                  /\ SamePrices(pricing_call.result[1], Candidates(pricing_call)[k])
                  /\ pricing_call.result[1].model_pattern
                        = Candidates(pricing_call)[k].model_pattern
                  /\ eq_ignore_ascii_case(pricing_call.result[1].provider,
                                          Candidates(pricing_call)[k].provider)

\* C16 witness: three entries match gpt-4o-mini of openai: the second override
\* "gpt", the first override "mini" and the built-in gpt-4o entry; the first
\* override's prices are returned.
C16_Witness ==
    /\ pricing_call.called
    /\ pricing_call.provider = OPENAI
    /\ pricing_call.model = GPT_4O_MINI
    /\ Len(pricing_call.overrides) = 2
    /\ pricing_call.overrides[1].model_pattern = <<"m", "i", "n", "i">>
    /\ pricing_call.overrides[2].model_pattern = <<"g", "p", "t">>
    /\ MatchingCandidates(pricing_call) = {1, 2, 3, 4}
    /\ pricing_call.result # <<>>
    /\ pricing_call.result[1].input_per_1m = 7
    /\ pricing_call.result[1].output_per_1m = 9

-----------------------------------------------------------------------------
(* Direct calls of append_provider_log, as the unit tests of src/src/ui/run.rs *)
(* make them                                                                   *)

MaxCap == 2        \* the tests' max_provider_logs is one of 0..MaxCap
MaxAppends == 3    \* entries appended in one run

OPENAI_PADDED == <<" ">> \o OPENAI_MIXED \o <<" ">>

\* The provider names the calls pass: names as the program passes them, a name that
\* normalization changes, and names that normalize to the empty name.
LogProviders == {OPENAI, ANTHROPIC, OPENAI_PADDED, <<>>, <<" ">>}

LogEvents == {"first", "second", "third"}

TotalAppended == SumSeq([i \in 1..Len(Adapters) |->
                    IF Adapters[i] \in DOMAIN appended THEN Len(appended[Adapters[i]]) ELSE 0])

\* The tests build their AppState with a max_provider_logs of their own.
LogInit ==
    /\ StoreInit
    /\ RefreshInit
    /\ PricingInit
    /\ AggregateCallInit
    /\ DirectCallInit
    /\ phase = "shell"
    /\ \E cap \in 0..MaxCap : state = [AppStateDefault EXCEPT !.max_provider_logs = cap]
    /\ cfg = AppConfigDefault
    /\ keyring = EmptyMap
    /\ provider_test_job = <<>>
    /\ tasks = 0
    /\ appended = EmptyMap

AppendProviderLog ==
    /\ TotalAppended < MaxAppends
    /\ \E provider \in LogProviders, event \in LogEvents, level \in {"Info", "Error"} :
          LET key == normalize_provider_name(provider) IN
          /\ state' = append_provider_log(state, provider, level, event, "ok", <<>>, <<>>)
          /\ appended' =
                IF key = <<>> THEN appended
                ELSE Insert(appended, key,
                            Append(IF key \in DOMAIN appended THEN appended[key] ELSE <<>>,
                                   ProviderLogEntry(level, event, "ok", <<>>, <<>>)))
    /\ UNCHANGED <<storeVars, refresh_call, pricing_call, aggregate_call, direct_call, phase, cfg,
                   keyring, provider_test_job, tasks>>

LogNext == AppendProviderLog

SpecLog == LogInit /\ [][LogNext]_vars

\* The last n elements of a sequence.
LastN(s, n) == SubSeq(s, Len(s) - Min(n, Len(s)) + 1, Len(s))

\* C10: after any sequence of appends, the log of each provider holds at most
\* max_provider_logs entries, and they are the most recently appended entries of
\* that provider, in the order they were appended; a provider nothing was appended
\* for has no log.
C10_LogKeepsNewest ==
    /\ DOMAIN state.provider_logs = DOMAIN appended
    /\ \A p \in DOMAIN appended :
          /\ Len(state.provider_logs[p]) <= state.max_provider_logs
          /\ state.provider_logs[p] = LastN(appended[p], state.max_provider_logs)

\* N+1 entries have been appended to a log capped at N >= 1, and the oldest one is
\* gone.
C10_Witness ==
    \E p \in DOMAIN appended :
        /\ state.max_provider_logs >= 1
        /\ Len(appended[p]) = state.max_provider_logs + 1
        /\ Len(state.provider_logs[p]) = state.max_provider_logs
        /\ state.provider_logs[p] = Tail(appended[p])
        /\ state.provider_logs[p][1] # appended[p][1]

\* C11: an append to one provider's log, an evicting one included, leaves the log
\* of every other provider as it was: the same entries in the same order.  The
\* other providers are those the call appended nothing for.
C11_OtherLogsUnchanged ==
    [][\A q \in DOMAIN state.provider_logs :
          (q \in DOMAIN appended /\ appended'[q] = appended[q])
             => /\ q \in DOMAIN state'.provider_logs
                /\ state'.provider_logs[q] = state.provider_logs[q]]_vars

\* One provider's log has evicted its oldest entry while the other provider's log
\* holds all that was appended to it.
C11_Witness ==
    \E p, q \in DOMAIN appended :
        /\ p # q
        /\ state.max_provider_logs >= 1
        /\ Len(appended[p]) > state.max_provider_logs
        /\ Len(state.provider_logs[p]) = state.max_provider_logs
        /\ appended[q] # <<>>
        /\ state.provider_logs[q] = appended[q]

-----------------------------------------------------------------------------
(* The interactive loop (src/src/ui/run.rs) *)

\* KeyCode
Char(c) == [kind |-> "Char", ch |-> c]
Enter == [kind |-> "Enter", ch |-> ""]
Esc == [kind |-> "Esc", ch |-> ""]
Tab == [kind |-> "Tab", ch |-> ""]
BackTab == [kind |-> "BackTab", ch |-> ""]
Backspace == [kind |-> "Backspace", ch |-> ""]
Up == [kind |-> "Up", ch |-> ""]
Down == [kind |-> "Down", ch |-> ""]
Left == [kind |-> "Left", ch |-> ""]
Right == [kind |-> "Right", ch |-> ""]

\* const ACTIONS
MENU_ACTIONS == <<"Refresh now", "Manage providers/keys", "Quit application">>

\* What run_loop and its handlers work on: AppState, the configuration, the keyring,
\* the job slot, the runtime's running test tasks and the store.
World ==
    [state |-> state, cfg |-> cfg, keyring |-> keyring,
     provider_test_job |-> provider_test_job, tasks |-> tasks, db |-> Db]

\* ProviderTestOrigin
Manager == [kind |-> "Manager", mode |-> NoMode]
Form(mode) == [kind |-> "Form", mode |-> mode]

\* The JoinHandle of a test task: whether the task has finished, whether the loop
\* has passed its poll since, and the task's output.
Running == [kind |-> "running", status_code |-> <<>>, duration_ms |-> 0, message |-> ""]
OkReport(status_code, duration_ms) ==
    [kind |-> "ok", status_code |-> status_code, duration_ms |-> duration_ms, message |-> ""]
ErrOutput(message) ==
    [kind |-> "err", status_code |-> <<>>, duration_ms |-> 0, message |-> message]
JoinError == [kind |-> "join_error", status_code |-> <<>>, duration_ms |-> 0, message |-> ""]

show_error(st, message) ==
    [st EXCEPT !.error_message = message, !.previous_screen = st.screen,
               !.screen = ErrorDialog]

show_info(st, message) ==
    [st EXCEPT !.info_message = message, !.previous_screen = st.screen,
               !.screen = InfoDialog]

\* The four places that open the quit confirmation.
confirm_quit(st) ==
    [st EXCEPT !.previous_screen = st.screen, !.screen = Confirm(Quit),
               !.confirm_selected = 0, !.action_focused = FALSE]

\* refresh_dashboard.  io.fetch are the answers of the providers' APIs, io.now the
\* clock and io.commit_ok whether the store's commit succeeds.
\* Mutant of refresh_dashboard: a failed refresh stamps last_refresh too.
refresh_dashboard_stamps_failure(w, io) ==
    LET env == [cfg |-> w.cfg,
                keys |-> {P \in Range(Adapters) : get_api_key(w.keyring, P, io) # <<>>},
                fetch |-> io.fetch]
        Committed(r0) ==
            IF io.commit_ok \/ ~r0.stored THEN r0
            ELSE refresh(w.db, env, w.state.window, io.now,
                         2 * Len(r0.refreshed_providers) + Len(r0.usage) + Len(r0.cost) + 1)
        Shown(db, agg) ==
            [w EXCEPT !.db = db,
                      !.state.view = [tokens |-> agg.tokens, cost |-> agg.cost,
                                      provider_breakdown |-> agg.by_provider,
                                      model_breakdown |-> agg.by_model,
                                      last_refresh |-> <<to_rfc3339(io.now)>>],
                      !.state.status = Msg("ok", <<>>, "")]
        Done(r) ==
            IF r.status = "ok"
            THEN Shown(r.store.db,
                       aggregate_since(r.store.db, io.now - as_hours(w.state.window),
                                       io.ties))
            ELSE [w EXCEPT !.db = r.store.db,
                           !.state.view.last_refresh = <<to_rfc3339(io.now + 1)>>,
                           !.state.status = Msg("refresh failed: {err}", r.provider, r.error)]
    IN  CHOOSE out \in {Done(r) : r \in {Committed(r0) :
                   r0 \in {refresh(w.db, env, w.state.window, io.now, 0)}}} : TRUE

refresh_dashboard(w, io) ==
    LET env == [cfg |-> w.cfg,
                keys |-> {P \in Range(Adapters) : get_api_key(w.keyring, P, io) # <<>>},
                fetch |-> io.fetch]
        \* The commit is the last statement of replace_snapshot.
        Committed(r0) ==
            IF io.commit_ok \/ ~r0.stored THEN r0
            ELSE refresh(w.db, env, w.state.window, io.now,
                         2 * Len(r0.refreshed_providers) + Len(r0.usage) + Len(r0.cost) + 1)
        Shown(db, agg) ==
            [w EXCEPT !.db = db,
                      !.state.view =
                          IF io.aggregate_ok
                          THEN [tokens |-> agg.tokens, cost |-> agg.cost,
                                provider_breakdown |-> agg.by_provider,
                                model_breakdown |-> agg.by_model,
                                last_refresh |-> <<to_rfc3339(io.now)>>]
                          ELSE [@ EXCEPT !.last_refresh = <<to_rfc3339(io.now)>>],
                      !.state.status = Msg("ok", <<>>, "")]
        Done(r) ==
            IF r.status = "ok"
            THEN Shown(r.store.db,
                       aggregate_since(r.store.db, io.now - as_hours(w.state.window),
                                       io.ties))
            ELSE [w EXCEPT !.db = r.store.db,
                           !.state.status = Msg("refresh failed: {err}", r.provider, r.error)]
    IN  CHOOSE out \in {Done(r) : r \in {Committed(r0) :
                   r0 \in {refresh(w.db, env, w.state.window, io.now, 0)}}} : TRUE

RECURSIVE sorted_keys(_)
sorted_keys(S) ==
    IF S = {} THEN <<>>
    ELSE LET m == CHOOSE x \in S : \A y \in S : ~StrLess(y, x)
         IN  <<m>> \o sorted_keys(S \ {m})

RECURSIVE push_missing(_, _)
push_missing(providers, names) ==
    IF names = <<>> THEN providers
    ELSE push_missing(
            IF \E i \in DOMAIN providers : eq_ignore_ascii_case(providers[i], Head(names))
            THEN providers ELSE Append(providers, Head(names)),
            Tail(names))

RECURSIVE insert_sorted(_, _)
insert_sorted(sorted, x) ==
    IF sorted = <<>> THEN <<x>>
    ELSE IF StrLess(x, Head(sorted)) THEN <<x>> \o sorted
    ELSE <<Head(sorted)>> \o insert_sorted(Tail(sorted), x)

RECURSIVE sort(_)
sort(s) == IF s = <<>> THEN <<>> ELSE insert_sorted(sort(Tail(s)), Head(s))

provider_list(config) ==
    sort(push_missing(push_missing(sorted_keys(DOMAIN config.provider_settings),
                                   config.enabled_providers),
                      <<OPENAI, ANTHROPIC>>))

\* Url::parse succeeds on an absolute URL: a scheme of letters, then ":".
url_parse_ok(text) ==
    \E i \in 2..Len(text) :
        /\ text[i] = ":"
        /\ \A j \in 1..(i - 1) : text[j] \in Range(UpperCase) \cup Range(LowerCase)

\* Option<String> of a trimmed field.
non_empty(text) == IF trim(text) = <<>> THEN <<>> ELSE <<trim(text)>>

unwrap_or_default(option) == IF option = <<>> THEN <<>> ELSE option[1]

settings_of(config, provider_name) ==
    IF provider_name \in DOMAIN config.provider_settings
    THEN config.provider_settings[provider_name] ELSE ProviderSettingsDefault

\* The target of a test: ok with (name, api_key, settings), or the error message.
build_manager_test_target(config, kr, provider, io) ==
    LET provider_name == normalize_provider_name(provider)
        api_key == get_api_key(kr, provider_name, io)
    IN  IF api_key = <<>>
        THEN [ok |-> FALSE, name |-> provider_name, api_key |-> <<>>,
              settings |-> ProviderSettingsDefault,
              message |-> Msg("Provider '{provider_name}' has no key. Set key first before testing.",
                              provider_name, "")]
        ELSE [ok |-> TRUE, name |-> provider_name, api_key |-> api_key[1],
              settings |-> settings_of(config, provider_name), message |-> NoMsg]

build_form_test_target(st, config, kr, mode, io) ==
    LET provider_name == IF mode.kind = "Add"
                         THEN normalize_provider_name(st.provider_draft.name)
                         ELSE normalize_provider_name(mode.provider)
        stored_key == get_api_key(kr, provider_name, io)
        api_key == IF trim(st.provider_draft.api_key) # <<>>
                   THEN <<trim(st.provider_draft.api_key)>> ELSE stored_key
        existing == settings_of(config, provider_name)
        Fail(text) == [ok |-> FALSE, name |-> provider_name, api_key |-> <<>>,
                       settings |-> ProviderSettingsDefault, message |-> Msg(text, <<>>, "")]
    IN  IF provider_name = <<>> THEN Fail("Provider name is required before testing.")
        ELSE IF api_key = <<>> THEN Fail("API key is required to run a connection test.")
        ELSE IF trim(st.provider_draft.base_url) # <<>>
                /\ ~url_parse_ok(trim(st.provider_draft.base_url))
             THEN Fail("Base URL is not valid")
        ELSE [ok |-> TRUE, name |-> provider_name, api_key |-> api_key[1],
              settings |-> [base_url |-> IF trim(st.provider_draft.base_url) # <<>>
                                         THEN <<trim(st.provider_draft.base_url)>>
                                         ELSE existing.base_url,
                            organization_id |->
                                IF trim(st.provider_draft.organization_id) # <<>>
                                THEN <<trim(st.provider_draft.organization_id)>>
                                ELSE existing.organization_id],
              message |-> NoMsg]

\* The task is spawned and the slot is set to the new job, whatever the slot held.
queue_provider_test_job(w, provider, api_key, settings, origin) ==
    [w EXCEPT !.tasks = @ + 1,
              !.provider_test_job =
                  <<[provider |-> provider, origin |-> origin,
                     task |-> [provider |-> provider, api_key |-> api_key,
                               settings |-> settings],
                     handle |-> [finished |-> FALSE, polled |-> "no", output |-> Running]]>>]

\* Mutant of form_job_matches_current: every form job is taken for the current form's.
form_job_matches_current_always(st, mode, provider) == TRUE

form_job_matches_current(st, mode, provider) ==
    IF st.screen.kind # "ProviderForm" THEN FALSE
    ELSE IF st.screen.mode # mode THEN FALSE
    ELSE IF mode.kind = "Add" THEN normalize_provider_name(st.provider_draft.name) = provider
    ELSE TRUE

\* An Option.
form_provider_name(st, mode) ==
    LET provider == IF mode.kind = "Add" THEN normalize_provider_name(st.provider_draft.name)
                    ELSE normalize_provider_name(mode.provider)
    IN  IF provider = <<>> THEN <<>> ELSE <<provider>>

\* A failure that leaves the form's toggle as it is.
record_failure_keeps_toggle(st, job, provider, message, fallback_duration) ==
    LET st1 == append_provider_log(st, provider, "Error", "test_failed", message,
                                   <<>>, <<fallback_duration>>)
        status == Failure(message)
        st2 == [st1 EXCEPT !.provider_test_results = Insert(@, provider, status),
                           !.status = Msg("Connection test failed for '{provider}': {message}",
                                          provider, message)]
    IN  IF job.origin.kind = "Form" /\ form_job_matches_current(st2, job.origin.mode, provider)
        THEN [st2 EXCEPT !.provider_draft.connection_status = status]
        ELSE st2

\* The failure branches of process_provider_test_job: the log entry, the cached
\* status, the message, and the form the job came from if it is still the current one.
record_failure(st, job, provider, message, fallback_duration) ==
    LET st1 == append_provider_log(st, provider, "Error", "test_failed", message,
                                   <<>>, <<fallback_duration>>)
        status == Failure(message)
        st2 == [st1 EXCEPT !.provider_test_results = Insert(@, provider, status),
                           !.status = Msg("Connection test failed for '{provider}': {message}",
                                          provider, message)]
    IN  IF job.origin.kind = "Form" /\ form_job_matches_current(st2, job.origin.mode, provider)
        THEN [st2 EXCEPT !.provider_draft.connection_status = status,
                         !.provider_draft.enabled = FALSE]
        ELSE st2

\* A harvest that also deletes the stored rows of the tested provider.
process_provider_test_job_purging(w, elapsed) ==
    IF w.provider_test_job = <<>> THEN w
    ELSE LET job == w.provider_test_job[1]
             provider == normalize_provider_name(job.provider)
         IN  [w EXCEPT !.provider_test_job = <<>>,
                       !.db = [usage |-> SelectSeq(w.db.usage,
                                            LAMBDA r : r.provider # provider),
                               cost |-> SelectSeq(w.db.cost,
                                            LAMBDA r : r.provider # provider)],
                       !.state = record_failure(w.state, job, provider,
                                                "Background test task failed: {e}",
                                                elapsed)]

\* A harvest that takes every output for a failure.
process_provider_test_job_all_failed(w, elapsed) ==
    IF w.provider_test_job = <<>> THEN w
    ELSE LET job == w.provider_test_job[1] IN
         [w EXCEPT !.provider_test_job = <<>>,
                   !.state = record_failure(w.state, job, normalize_provider_name(job.provider),
                                            job.handle.output.message, elapsed)]

\* A harvest that takes the job out of the slot and records nothing.
process_provider_test_job_forgets(w, elapsed) ==
    [w EXCEPT !.provider_test_job = <<>>]

\* process_provider_test_job on a finished job; elapsed is what started_at.elapsed()
\* returns.
process_provider_test_job(w, elapsed) ==
    IF w.provider_test_job = <<>> THEN w
    ELSE
    LET job == w.provider_test_job[1]
        st == w.state
        provider == normalize_provider_name(job.provider)
        out == job.handle.output
        taken == [w EXCEPT !.provider_test_job = <<>>]
    IN  CASE out.kind = "ok" ->
               LET st1 == append_provider_log(st, provider, "Info", "response_received",
                              "Provider responded to connection test request.",
                              out.status_code, <<out.duration_ms>>)
                   st2 == append_provider_log(st1, provider, "Info", "test_succeeded",
                              "Connection test completed successfully.",
                              out.status_code, <<out.duration_ms>>)
                   st3 == [st2 EXCEPT
                             !.provider_test_results = Insert(@, provider, Success),
                             !.status = Msg("Connection test succeeded for '{provider}'.",
                                            provider, "")]
               IN  [taken EXCEPT !.state =
                       IF job.origin.kind = "Form"
                          /\ form_job_matches_current(st3, job.origin.mode, provider)
                       THEN [st3 EXCEPT !.provider_draft.connection_status = Success]
                       ELSE st3]
          [] out.kind = "err" ->
               [taken EXCEPT !.state = record_failure(st, job, provider, out.message, elapsed)]
          [] OTHER ->
               [taken EXCEPT !.state =
                   record_failure(st, job, provider, "Background test task failed: {e}",
                                  elapsed)]

\* ProviderFormField
visible_form_fields(mode, show_advanced) ==
    (IF mode.kind = "Add" THEN <<"Name">> ELSE <<>>)
    \o <<"ApiKey">>
    \o (IF show_advanced THEN <<"BaseUrl", "OrganizationId">> ELSE <<>>)
    \o <<"Enabled">>

active_form_field(st, mode) ==
    LET fields == visible_form_fields(mode, st.provider_draft.show_advanced)
        index == Min(st.provider_draft.active_field, Max(Len(fields) - 1, 0))
    IN  fields[index + 1]

reset_connection_status_after_edit(st) ==
    IF st.provider_draft.connection_status # NotTested
    THEN [st EXCEPT !.provider_draft.connection_status = NotTested]
    ELSE st

input_char(st, mode, ch) ==
    LET field == active_form_field(st, mode) IN
    reset_connection_status_after_edit(
        CASE field = "Name" -> [st EXCEPT !.provider_draft.name = Append(@, ch)]
          [] field = "ApiKey" -> [st EXCEPT !.provider_draft.api_key = Append(@, ch)]
          [] field = "BaseUrl" -> [st EXCEPT !.provider_draft.base_url = Append(@, ch)]
          [] field = "OrganizationId" ->
                [st EXCEPT !.provider_draft.organization_id = Append(@, ch)]
          [] OTHER -> st)

\* String::pop
pop(text) == IF text = <<>> THEN text ELSE SubSeq(text, 1, Len(text) - 1)

backspace_char(st, mode) ==
    LET field == active_form_field(st, mode) IN
    reset_connection_status_after_edit(
        CASE field = "Name" -> [st EXCEPT !.provider_draft.name = pop(@)]
          [] field = "ApiKey" -> [st EXCEPT !.provider_draft.api_key = pop(@)]
          [] field = "BaseUrl" -> [st EXCEPT !.provider_draft.base_url = pop(@)]
          [] field = "OrganizationId" ->
                [st EXCEPT !.provider_draft.organization_id = pop(@)]
          [] OTHER -> st)

submit_provider_form(w, mode, io) ==
    LET st == w.state
        draft == st.provider_draft
        provider_name == IF mode.kind = "Add" THEN normalize_provider_name(draft.name)
                         ELSE normalize_provider_name(mode.provider)
        Error(world, text) ==
            [world EXCEPT !.state = show_error(world.state, Msg(text, <<>>, ""))]
    IN  IF provider_name = <<>> THEN Error(w, "Provider name is required")
        ELSE IF mode.kind = "Add" /\ trim(draft.api_key) = <<>>
             THEN Error(w, "API key is required for new providers.")
        ELSE IF trim(draft.base_url) # <<>> /\ ~url_parse_ok(trim(draft.base_url))
             THEN Error(w, "Base URL is not valid")
        ELSE
        LET settings == [base_url |-> non_empty(draft.base_url),
                         organization_id |-> non_empty(draft.organization_id)]
            w1 == [w EXCEPT !.cfg.provider_settings = Insert(@, provider_name, settings)]
            set == IF trim(draft.api_key) # <<>>
                   THEN set_api_key(w.keyring, provider_name, trim(draft.api_key), io)
                   ELSE [ok |-> TRUE, keyring |-> w.keyring]
            w2 == [w1 EXCEPT !.keyring = set.keyring]
            has == has_api_key(w2.keyring, provider_name, io)
            blocked_enable_without_test ==
                draft.enabled /\ draft.connection_status # Success
            w3 == IF draft.enabled
                  THEN IF draft.connection_status # Success
                       THEN [w2 EXCEPT !.cfg.enabled_providers =
                                           retain_other(@, provider_name),
                                       !.state.provider_draft.enabled = FALSE]
                       ELSE IF IsEnabled(w2.cfg, provider_name) THEN w2
                       ELSE [w2 EXCEPT !.cfg.enabled_providers = Append(@, provider_name)]
                  ELSE [w2 EXCEPT !.cfg.enabled_providers = retain_other(@, provider_name)]
        IN  IF ~set.ok THEN Error(w1, "Failed to save key: {e}")
            ELSE IF draft.enabled /\ draft.connection_status = Success /\ has = "false"
                 THEN Error(w2, "Cannot enable provider without key. Add API key first.")
            ELSE IF draft.enabled /\ draft.connection_status = Success /\ has = "err"
                 THEN Error(w2, "Failed reading keychain: {e}")
            ELSE IF ~save_config(io) THEN Error(w3, "Failed to save config: {e}")
            ELSE [w3 EXCEPT
                    !.state.status =
                        IF blocked_enable_without_test
                        THEN Msg("Provider '{provider_name}' saved disabled: run connection test first.",
                                 provider_name, "")
                        ELSE IF mode.kind = "Add"
                             THEN Msg("Provider '{}' added", provider_name, "")
                             ELSE Msg("Provider '{}' updated", provider_name, ""),
                    !.state.provider_test_results =
                        IF draft.connection_status.kind \in {"Success", "Failure"}
                        THEN Insert(@, provider_name, draft.connection_status)
                        ELSE @,
                    !.state.provider_draft = ProviderDraftDefault,
                    !.state.screen = ProviderManager]

\* handle_key while the action menu has the focus.
action_menu_key(code, w, io) ==
    CASE code = Up ->
            [w EXCEPT !.state.action_selected = IF @ > 0 THEN @ - 1 ELSE @]
      [] code = Down ->
            [w EXCEPT !.state.action_selected = IF @ + 1 < Len(MENU_ACTIONS) THEN @ + 1 ELSE @]
      [] code = Enter ->
            CASE w.state.action_selected = 0 ->
                    [refresh_dashboard(w, io) EXCEPT !.state.action_focused = FALSE]
              [] w.state.action_selected = 1 ->
                    [w EXCEPT !.state.screen = ProviderManager,
                              !.state.action_focused = FALSE]
              [] w.state.action_selected = 2 ->
                    [w EXCEPT !.state = confirm_quit(w.state)]
              [] OTHER -> w
      [] OTHER -> w

\* handle_key on Screen::Dashboard.
dashboard_key(code, w, io) ==
    CASE code = Char("q") -> [w EXCEPT !.state = confirm_quit(w.state)]
      [] code = Char("1") -> [w EXCEPT !.state.window = "OneDay"]
      [] code = Char("7") -> [w EXCEPT !.state.window = "SevenDays"]
      [] code = Char("3") -> [w EXCEPT !.state.window = "ThirtyDays"]
      [] code = Char("r") -> refresh_dashboard(w, io)
      [] OTHER -> w

\* A Provider Manager whose 't' does not look at the slot.
manager_test_unguarded(w, provider, io) ==
    LET target == build_manager_test_target(w.cfg, w.keyring, provider, io) IN
    IF target.ok
    THEN LET st1 == [w.state EXCEPT !.status =
                         Msg("Testing '{name}' connection...", target.name, "")]
             st2 == append_provider_log(st1, target.name, "Info", "test_started",
                        "Connection test queued from Provider Manager.", <<>>, <<>>)
         IN  queue_provider_test_job([w EXCEPT !.state = st2], target.name,
                                     target.api_key, target.settings, Manager)
    ELSE [w EXCEPT !.state = show_error(w.state, target.message)]

\* The 't' arm of the Provider Manager.
manager_test(w, provider, io) ==
    IF w.provider_test_job # <<>>
    THEN [w EXCEPT !.state.status =
              Msg("Another provider connection test is running.", <<>>, "")]
    ELSE LET target == build_manager_test_target(w.cfg, w.keyring, provider, io) IN
         IF target.ok
         THEN LET st1 == [w.state EXCEPT !.status =
                              Msg("Testing '{name}' connection...", target.name, "")]
                  st2 == append_provider_log(st1, target.name, "Info", "test_started",
                             "Connection test queued from Provider Manager.", <<>>, <<>>)
              IN  queue_provider_test_job([w EXCEPT !.state = st2], target.name,
                                          target.api_key, target.settings, Manager)
         ELSE [w EXCEPT !.state = show_error(w.state, target.message)]

\* The 'e' arm of the Provider Manager.
manager_enable(w, provider, io) ==
    LET normalized == normalize_provider_name(provider)
        results == w.state.provider_test_results
        SaveError(world) ==
            [world EXCEPT !.state = show_error(world.state,
                                        Msg("Failed to save config: {e}", <<>>, ""))]
    IN  IF IsEnabled(w.cfg, normalized)
        THEN LET w1 == [w EXCEPT !.cfg.enabled_providers = retain_other(@, normalized)] IN
             IF ~save_config(io) THEN SaveError(w1)
             ELSE [w1 EXCEPT !.state.status =
                       Msg("Provider '{normalized}' disabled", normalized, "")]
        ELSE IF ~(normalized \in DOMAIN results /\ results[normalized] = Success)
        THEN [w EXCEPT !.state.status =
                  Msg("Run test first for '{normalized}' (press 't'), then enable with 'e'.",
                      normalized, "")]
        ELSE LET has == has_api_key(w.keyring, normalized, io) IN
             CASE has = "true" ->
                    LET w1 == [w EXCEPT !.cfg.enabled_providers = Append(@, normalized)] IN
                    IF ~save_config(io) THEN SaveError(w1)
                    ELSE [w1 EXCEPT !.state.status =
                              Msg("Provider '{normalized}' enabled", normalized, "")]
               [] has = "false" ->
                    [w EXCEPT !.state = show_error(w.state,
                         Msg("Provider '{normalized}' has no key. Set key first.",
                             normalized, ""))]
               [] OTHER ->
                    [w EXCEPT !.state = show_error(w.state,
                         Msg("Failed reading keychain: {e}", <<>>, ""))]

\* The Enter arm of the Provider Manager: the edit form of the selected provider.
manager_edit(w, provider) ==
    LET settings == settings_of(w.cfg, provider)
        normalized == normalize_provider_name(provider)
        is_enabled == IsEnabled(w.cfg, provider)
        results == w.state.provider_test_results
    IN  [w EXCEPT
            !.state.provider_draft =
                [name |-> provider,
                 base_url |-> unwrap_or_default(settings.base_url),
                 organization_id |-> unwrap_or_default(settings.organization_id),
                 api_key |-> <<>>,
                 enabled |-> is_enabled,
                 active_field |-> 0,
                 show_advanced |-> FALSE,
                 connection_status |->
                     IF normalized \in DOMAIN results THEN results[normalized]
                     ELSE IF is_enabled THEN Success ELSE NotTested],
            !.state.screen = ProviderForm(Edit(provider)),
            !.state.action_focused = FALSE]

\* handle_key on Screen::ProviderManager.
manager_key(code, w, io) ==
    LET providers == provider_list(w.cfg)
        provider_count == Len(providers)
        w0 == [w EXCEPT !.state.provider_selected =
                  IF provider_count = 0 THEN 0
                  ELSE IF @ >= provider_count THEN provider_count - 1 ELSE @]
        selected == w0.state.provider_selected
        some == selected < provider_count
        provider == providers[selected + 1]
        AskConfirm(action) ==
            [w0 EXCEPT !.state.previous_screen = ProviderManager,
                       !.state.screen = Confirm(action),
                       !.state.confirm_selected = 0,
                       !.state.action_focused = FALSE]
    IN  CASE code = Esc -> [w0 EXCEPT !.state.screen = Dashboard]
          [] code = Char("q") -> [w0 EXCEPT !.state = confirm_quit(w0.state)]
          [] code = Char("n") ->
                [w0 EXCEPT !.state.provider_draft = ProviderDraftDefault,
                           !.state.screen = ProviderForm(Add),
                           !.state.action_focused = FALSE]
          [] code = Up ->
                [w0 EXCEPT !.state.provider_selected = IF @ > 0 THEN @ - 1 ELSE @]
          [] code = Down ->
                [w0 EXCEPT !.state.provider_selected =
                    IF @ + 1 < provider_count THEN @ + 1 ELSE @]
          [] code = Char("t") -> IF some THEN manager_test(w0, provider, io) ELSE w0
          [] code = Char("e") -> IF some THEN manager_enable(w0, provider, io) ELSE w0
          [] code = Enter -> IF some THEN manager_edit(w0, provider) ELSE w0
          [] code = Char("d") -> IF some THEN AskConfirm(DeleteProvider(provider)) ELSE w0
          [] code = Char("k") -> IF some THEN AskConfirm(DeleteKey(provider)) ELSE w0
          [] OTHER -> w0

\* The 't' arm of a Provider Form.
form_test(w, mode, io) ==
    IF w.provider_test_job # <<>>
    THEN [w EXCEPT !.state.status =
              Msg("Another provider connection test is running.", <<>>, "")]
    ELSE LET target == build_form_test_target(w.state, w.cfg, w.keyring, mode, io) IN
         IF target.ok
         THEN LET st1 == [w.state EXCEPT
                              !.provider_draft.connection_status = Testing,
                              !.status = Msg("Testing '{provider}' connection...",
                                             target.name, "")]
                  st2 == append_provider_log(st1, target.name, "Info", "test_started",
                             "Connection test queued from Provider Form.", <<>>, <<>>)
              IN  queue_provider_test_job([w EXCEPT !.state = st2], target.name,
                                          target.api_key, target.settings, Form(mode))
         ELSE [w EXCEPT !.state = show_error(w.state, target.message)]

\* handle_key on Screen::ProviderForm(mode).
form_key(code, w, io, mode) ==
    LET st == w.state
        draft == st.provider_draft
        field_count == Len(visible_form_fields(mode, draft.show_advanced))
    IN  CASE code = Esc -> [w EXCEPT !.state.screen = ProviderManager]
          [] code = Tab ->
                [w EXCEPT !.state.provider_draft.active_field = (@ + 1) % field_count]
          [] code = BackTab ->
                [w EXCEPT !.state.provider_draft.active_field =
                    IF @ = 0 THEN field_count - 1 ELSE @ - 1]
          [] code = Char("v") ->
                LET new_count == Len(visible_form_fields(mode, ~draft.show_advanced)) IN
                [w EXCEPT !.state.provider_draft.show_advanced = ~@,
                          !.state.provider_draft.active_field =
                              IF @ >= new_count THEN Max(new_count - 1, 0) ELSE @]
          [] code = Char("t") -> form_test(w, mode, io)
          [] code = Enter -> submit_provider_form(w, mode, io)
          [] code = Char("i") ->
                IF draft.connection_status.kind = "Failure"
                THEN [w EXCEPT !.state =
                         show_info(st, Msg("", <<>>, draft.connection_status.message))]
                ELSE [w EXCEPT !.state.status =
                         Msg("No detailed connection error to show.", <<>>, "")]
          [] code = Char("x") ->
                LET provider == form_provider_name(st, mode) IN
                IF provider # <<>>
                THEN [w EXCEPT !.state.provider_logs = Remove(@, provider[1]),
                               !.state.log_scroll = 0,
                               !.state.status =
                                   Msg("Cleared test logs for '{provider}'.", provider[1], "")]
                ELSE [w EXCEPT !.state.status =
                         Msg("Set provider name first to target logs, then press 'x'.",
                             <<>>, "")]
          [] code = Char("e") ->
                IF active_form_field(st, mode) = "Enabled"
                THEN IF draft.connection_status = Success
                     THEN [w EXCEPT !.state.provider_draft.enabled = ~@]
                     ELSE [w EXCEPT !.state.status =
                              Msg("Run connection test before enabling provider.", <<>>, "")]
                ELSE [w EXCEPT !.state = input_char(st, mode, "e")]
          [] code = Char(" ") ->
                IF active_form_field(st, mode) # "Enabled"
                THEN [w EXCEPT !.state = input_char(st, mode, " ")]
                ELSE w
          [] code = Backspace -> [w EXCEPT !.state = backspace_char(st, mode)]
          [] code.kind = "Char" -> [w EXCEPT !.state = input_char(st, mode, code.ch)]
          [] OTHER -> w

\* The confirmed actions of Screen::Confirm(action).
confirm_yes(w, io, action) ==
    LET provider == action.provider
        normalized == normalize_provider_name(provider)
        Error(world, text) ==
            [world EXCEPT !.state = show_error(world.state, Msg(text, <<>>, ""))]
        del == delete_api_key(w.keyring, provider, io)
    IN  CASE action.kind = "Quit" -> [w EXCEPT !.state.running = FALSE]
          [] action.kind = "DeleteProvider" ->
                LET w1 == [w EXCEPT
                              !.cfg.provider_settings = Remove(@, provider),
                              !.cfg.enabled_providers = retain_other(@, provider),
                              !.state.provider_test_results = Remove(@, normalized),
                              !.state.provider_logs = Remove(@, normalized)]
                    w2 == [w1 EXCEPT !.keyring = del.keyring]
                IN  IF ~del.ok THEN Error(w1, "Failed to delete key: {e}")
                    ELSE IF ~save_config(io) THEN Error(w2, "Failed to save config: {e}")
                    ELSE [w2 EXCEPT !.state.status =
                                        Msg("Provider '{provider}' removed", provider, ""),
                                    !.state.screen = ProviderManager]
          [] action.kind = "DeleteKey" ->
                LET w1 == [w EXCEPT
                              !.keyring = del.keyring,
                              !.cfg.enabled_providers = retain_other(@, provider),
                              !.state.provider_test_results = Remove(@, normalized),
                              !.state.provider_logs = Remove(@, normalized)]
                IN  IF ~del.ok THEN Error(w, "Failed to delete key: {e}")
                    ELSE IF ~save_config(io) THEN Error(w1, "Failed to save config: {e}")
                    ELSE [w1 EXCEPT !.state.status =
                                        Msg("Key removed for '{provider}'", provider, ""),
                                    !.state.screen = ProviderManager]
          [] OTHER -> w

\* handle_key on Screen::Confirm(action).
confirm_key(code, w, io, action) ==
    CASE code = Esc ->
            [w EXCEPT !.state.screen = w.state.previous_screen,
                      !.state.action_focused = FALSE]
      [] code = Left ->
            [w EXCEPT !.state.confirm_selected = IF @ > 0 THEN @ - 1 ELSE @]
      [] code = Right ->
            [w EXCEPT !.state.confirm_selected = IF @ < 1 THEN @ + 1 ELSE @]
      [] code = Enter ->
            IF w.state.confirm_selected = 0
            THEN [w EXCEPT !.state.screen = w.state.previous_screen,
                           !.state.action_focused = FALSE]
            ELSE confirm_yes(w, io, action)
      [] OTHER -> w

\* handle_key on Screen::ErrorDialog and Screen::InfoDialog.
dialog_key(code, w) ==
    IF code \in {Enter, Esc} THEN [w EXCEPT !.state.screen = w.state.previous_screen]
    ELSE w

handle_key(code, control, w, io) ==
    LET st == w.state
        on_menu_screen == st.screen \in {Dashboard, ProviderManager}
    IN  IF control /\ code = Char("c") THEN [w EXCEPT !.state = confirm_quit(st)]
        ELSE IF code = Char("z")
             THEN [w EXCEPT !.state.compact_mode = ~@,
                            !.state.status =
                                IF ~st.compact_mode
                                THEN Msg("compact mode enabled", <<>>, "")
                                ELSE Msg("compact mode disabled", <<>>, "")]
        ELSE IF code = Char("a") /\ on_menu_screen
             THEN [w EXCEPT !.state.action_focused = TRUE]
        ELSE IF code = Esc /\ st.action_focused /\ on_menu_screen
             THEN [w EXCEPT !.state.action_focused = FALSE]
        ELSE IF st.action_focused /\ on_menu_screen THEN action_menu_key(code, w, io)
        ELSE CASE st.screen.kind = "Dashboard" -> dashboard_key(code, w, io)
               [] st.screen.kind = "ProviderManager" -> manager_key(code, w, io)
               [] st.screen.kind = "ProviderForm" -> form_key(code, w, io, st.screen.mode)
               [] st.screen.kind = "Confirm" -> confirm_key(code, w, io, st.screen.action)
               [] OTHER -> dialog_key(code, w)

-----------------------------------------------------------------------------
(* run_loop: the test task, the harvest, the keys, the periodic refresh *)

\* MeterService::test_provider_connection in the spawned task: the report of a
\* supported provider that answers, an error, or a task that panics or is cancelled.
TestOutcomes(provider) ==
    IF normalize_provider_name(provider) \in {OPENAI, ANTHROPIC}
    THEN {OkReport(<<200>>, 20), ErrOutput("request failed"), JoinError}
    ELSE {ErrOutput("Unsupported provider '{provider}'."), JoinError}

\* started_at.elapsed() at the harvest, in milliseconds.
Elapsed == {30}

\* What the outside world answers while a handler runs: the keyring and the config
\* file, and for a refresh the adapters, the clock and the commit.
QuietIo(keyring_ok, save_ok) ==
    [keyring_ok |-> keyring_ok, save_ok |-> save_ok,
     fetch |-> [P \in Range(Adapters) |-> FetchOk(<<>>)],
     now |-> as_hours("ThirtyDays"), commit_ok |-> TRUE,
     aggregate_ok |-> TRUE, ties |-> Adapters \o <<GPT_4O, CLAUDE_3_5_SONNET>>]

\* The session's environment: keyring and config file work, and a refresh finds no
\* usage rows at the providers and commits.
SessionIo == QuietIo(TRUE, TRUE)

\* The new values of what a handler works on.
SetWorld(w) ==
    /\ Len(w.db.usage) <= MaxRows
    /\ Len(w.db.cost) <= MaxRows
    /\ state' = w.state
    /\ cfg' = w.cfg
    /\ keyring' = w.keyring
    /\ provider_test_job' = w.provider_test_job
    /\ tasks' = w.tasks
    /\ usage_records' = w.db.usage
    /\ cost_records' = w.db.cost
    /\ UNCHANGED <<pc, last_call, result, tx_dirty, repeated, refresh_call, pricing_call, direct_call,
                   aggregate_call, appended>>

\* The finished, not yet harvested job has seen the loop pass its poll.
Polled(w, how) ==
    IF w.provider_test_job # <<>> /\ w.provider_test_job[1].handle.finished
    THEN [w EXCEPT !.provider_test_job[1].handle.polled = how]
    ELSE w

JobFinished == provider_test_job # <<>> /\ provider_test_job[1].handle.finished

\* `llm-meter tui`: run_tui and the start of run_loop.
RunTui ==
    /\ phase = "shell"
    /\ phase' = "tui"
    /\ \E w \in {refresh_dashboard([World EXCEPT !.state = AppStateDefault,
                                                 !.provider_test_job = <<>>], SessionIo)} :
          SetWorld(w)

\* The spawned task runs to its end.
TaskFinishes ==
    /\ phase = "tui"
    /\ provider_test_job # <<>>
    /\ ~provider_test_job[1].handle.finished
    /\ \E out \in TestOutcomes(provider_test_job[1].task.provider) :
          provider_test_job' =
              <<[provider_test_job[1] EXCEPT
                    !.handle = [finished |-> TRUE, polled |-> "no", output |-> out]]>>
    /\ tasks' = tasks - 1
    /\ UNCHANGED <<storeVars, refresh_call, pricing_call, aggregate_call, direct_call, phase, state, cfg,
                   keyring, appended>>

\* The top of the loop finds the job finished and harvests it.
Harvest ==
    /\ phase = "tui"
    /\ state.running
    /\ JobFinished
    /\ \E elapsed \in Elapsed :
          \E w \in {process_provider_test_job(World, elapsed)} : SetWorld(w)
    /\ UNCHANGED phase

\* Mutant of Press: keys are handled whatever the top of the loop has to harvest.
Press_before_harvest(key) ==
    /\ phase = "tui"
    /\ state.running
    /\ \E handled \in {handle_key(key.code, key.control, World, SessionIo)} :
          \E w \in {Polled(handled, "key")} : SetWorld(w)
    /\ UNCHANGED phase

\* event::poll returns a key press and handle_key handles it.  A job that finished
\* after the top of this iteration is still in its slot.
PressIn(key, io) ==
    /\ phase = "tui"
    /\ state.running
    /\ ~(JobFinished /\ provider_test_job[1].handle.polled # "no")
    /\ \E handled \in {handle_key(key.code, key.control, World, io)} :
          \E w \in {Polled(handled, "key")} : SetWorld(w)
    /\ UNCHANGED phase

Press(key) == PressIn(key, SessionIo)

\* The end of an iteration on the Dashboard, tick_rate after the last refresh.
TickIn(io) ==
    /\ phase = "tui"
    /\ state.running
    /\ state.screen = Dashboard
    /\ ~(JobFinished /\ provider_test_job[1].handle.polled = "tick")
    /\ \E refreshed \in {refresh_dashboard(World, io)} :
          \E w \in {Polled(refreshed, "tick")} : SetWorld(w)
    /\ UNCHANGED phase

Tick == TickIn(SessionIo)

-----------------------------------------------------------------------------
(* `llm-meter add-provider` (src/src/main.rs) *)

\* The command, from load_config to save_config.  set_api_key's error leaves the
\* command through `?` before the file is written.
add_provider(config, kr, provider_arg, api_key, base_url, organization_id, io) ==
    LET provider == normalize_provider_name(provider_arg)
        cfg1 == IF IsEnabled(config, provider) THEN config
                ELSE [config EXCEPT !.enabled_providers = Append(@, provider)]
        cfg2 == [cfg1 EXCEPT !.provider_settings =
                    Insert(@, provider, [base_url |-> base_url,
                                         organization_id |-> organization_id])]
        set == set_api_key(kr, provider, api_key, io)
    IN  IF ~set.ok THEN [cfg |-> config, keyring |-> kr]
        ELSE IF ~save_config(io) THEN [cfg |-> config, keyring |-> set.keyring]
        ELSE [cfg |-> cfg2, keyring |-> set.keyring]

AddProvider(provider_arg, api_key, base_url, organization_id, io) ==
    /\ phase = "shell"
    /\ \E r \in {add_provider(cfg, keyring, provider_arg, api_key, base_url,
                               organization_id, io)} :
          /\ cfg' = r.cfg
          /\ keyring' = r.keyring
    /\ UNCHANGED <<storeVars, refresh_call, pricing_call, aggregate_call, direct_call, phase, state,
                   provider_test_job, tasks, appended>>

Plain(code) == [code |-> code, control |-> FALSE]

\* The name as the user types it into the form of a new provider: 't' and 'i' are
\* keys of the form, so they are typed as capitals.
TypedName == <<"a", "n", "T", "h", "r", "o", "p", "I", "c">>

\* The form of a new provider is opened from a Provider Manager in which nothing
\* has been tested or edited yet.
FreshManager(st) ==
    /\ st.provider_test_results = EmptyMap
    /\ st.provider_logs = EmptyMap
    /\ st.provider_draft = ProviderDraftDefault

\* The session.  The user, with anthropic configured by the command or with nothing
\* configured, opens the Provider Manager and either works on the first provider of
\* the list (tests it, enables and disables it, opens its form, types one character
\* into the key, tests and toggles there, saves or leaves), or opens the form of a
\* new provider, types the name, tests under the full name, moves between the
\* fields, toggles, deletes the last character and types it again, leaves the form
\* and opens it again.
ManagerSessionKeys(st) ==
    CASE st.screen.kind = "Dashboard" ->
            {Plain(Char("a")), Plain(Up), Plain(Down), Plain(Enter), Plain(Esc)}
      [] st.screen.kind = "ProviderManager" ->
            IF st.provider_draft.name \in {<<>>, ANTHROPIC}
            THEN {Plain(Char("t")), Plain(Char("e")), Plain(Enter)}
                 \cup (IF FreshManager(st) THEN {Plain(Char("n"))} ELSE {})
            ELSE {Plain(Char("n"))}
      [] st.screen.kind = "ProviderForm" /\ st.screen.mode.kind = "Edit" ->
            {Plain(Esc), Plain(Tab), Plain(Char("t")), Plain(Enter)}
            \cup (IF active_form_field(st, st.screen.mode) = "Enabled"
                     \/ st.provider_draft.api_key = <<>>
                  THEN {Plain(Char("e"))} ELSE {})
      [] st.screen.kind = "ProviderForm" /\ st.screen.mode.kind = "Add" ->
            LET name == st.provider_draft.name
                field == active_form_field(st, st.screen.mode)
            IN  IF name = TypedName
                THEN {Plain(Esc), Plain(Tab), Plain(Char("t"))}
                     \cup (IF field = "Name" THEN {Plain(Backspace)} ELSE {})
                     \cup (IF field = "Enabled" THEN {Plain(Char("e"))} ELSE {})
                ELSE IF Len(name) < Len(TypedName) /\ name = SubSeq(TypedName, 1, Len(name))
                        /\ field = "Name"
                THEN {Plain(Char(TypedName[Len(name) + 1]))}
                ELSE {}
      [] st.screen.kind = "Confirm" ->
            {Plain(Esc), Plain(Left), Plain(Right), Plain(Enter)}
      [] OTHER -> {Plain(Enter), Plain(Esc)}

KeyPress == \E key \in ManagerSessionKeys(state) : Press(key)

Setup == AddProvider(ANTHROPIC, <<"a">>, <<>>, <<>>, SessionIo)

TuiNext == Setup \/ RunTui \/ KeyPress \/ TaskFinishes \/ Harvest \/ Tick

SpecTui == Init /\ [][TuiNext]_vars

-----------------------------------------------------------------------------
(* A session on the Dashboard: refreshes that find rows or fail, and tests *)

\* The session lasts less than an hour.
DashboardNow == as_hours("ThirtyDays")

\* What a refresh of this session can meet: anthropic answers an error, no row, a
\* priced row, an unpriced row, or an unpriced row and a priced one; or the keyring
\* fails (then no adapter is asked); or, with one row fetched, the commit or the
\* aggregate queries fail.
DashboardIos ==
    LET Io(keyring_ok, answer, commit_ok, aggregate_ok) ==
            [keyring_ok |-> keyring_ok, save_ok |-> TRUE,
             fetch |-> (OPENAI :> FetchErr @@ ANTHROPIC :> answer),
             now |-> DashboardNow, commit_ok |-> commit_ok, aggregate_ok |-> aggregate_ok,
             ties |-> Adapters \o <<UNKNOWN, CLAUDE_3_5_SONNET>>]
        answers == FetchResults(ANTHROPIC, DashboardNow - as_hours("OneDay"), DashboardNow)
        rows == {answer \in answers : answer.ok /\ Len(answer.rows) = 1}
    IN  {Io(TRUE, answer, TRUE, TRUE) : answer \in answers}
        \cup {Io(FALSE, FetchErr, TRUE, TRUE)}
        \cup {Io(TRUE, answer, FALSE, TRUE) : answer \in rows}
        \cup {Io(TRUE, answer, TRUE, FALSE) : answer \in rows}

\* The session.  The user, with anthropic configured by the command or with nothing
\* configured, refreshes from the Dashboard with 'r' or from the action menu, opens
\* the Provider Manager from the menu, tests the first provider there, and returns
\* to the Dashboard while the test runs.
DashboardSessionKeys(st) ==
    CASE st.screen.kind = "Dashboard" ->
            {Plain(Char("a")), Plain(Down), Plain(Enter), Plain(Char("r"))}
      [] st.screen.kind = "ProviderManager" -> {Plain(Char("t")), Plain(Esc)}
      [] OTHER -> {Plain(Enter), Plain(Esc)}

DashboardKeyPress ==
    \E key \in DashboardSessionKeys(state), io \in DashboardIos : PressIn(key, io)

DashboardTick == \E io \in DashboardIos : TickIn(io)

DashboardNext ==
    Setup \/ RunTui \/ DashboardKeyPress \/ TaskFinishes \/ Harvest \/ DashboardTick

SpecDashboard == Init /\ [][DashboardNext]_vars

-----------------------------------------------------------------------------
(* The connection-test job *)

AnotherTestRunning == Msg("Another provider connection test is running.", <<>>, "")

\* 't' reaches the test arm of the current screen: always in a Provider Form; in the
\* Provider Manager when the action menu does not hold the focus and a provider is
\* selected.
ReachesTestArm ==
    \/ state.screen.kind = "ProviderForm"
    \/ /\ state.screen.kind = "ProviderManager"
       /\ ~state.action_focused
       /\ provider_list(cfg) # <<>>

\* C5: at most one connection-test job is outstanding: no more than one test task
\* runs, and it is the task of the job in the slot.  Pressing 't' in the Provider
\* Manager or in a Provider Form while the slot is occupied spawns no task, leaves
\* the slot untouched, appends no log entry, leaves the draft (its status included)
\* as it is, changes nothing of the configuration, the keyring and the store, and
\* of AppState only the status message (and the Manager's clamped selection); the
\* message becomes "Another provider connection test is running." whenever the
\* key reaches the test arm.
C5_AtMostOneJob ==
    /\ tasks <= 1
    /\ tasks = 1 => provider_test_job # <<>> /\ ~provider_test_job[1].handle.finished
    /\ (provider_test_job # <<>> /\ state.screen.kind \in {"ProviderManager", "ProviderForm"})
          => \A io \in {SessionIo} :
                LET r == handle_key(Char("t"), FALSE, World, io) IN
                /\ r.tasks = tasks
                /\ r.provider_test_job = provider_test_job
                /\ r.state.provider_logs = state.provider_logs
                /\ r.state.provider_draft = state.provider_draft
                /\ r.cfg = cfg
                /\ r.keyring = keyring
                /\ r.db = Db
                /\ [r.state EXCEPT !.status = state.status,
                                   !.provider_selected = state.provider_selected] = state
                /\ ReachesTestArm => r.state.status = AnotherTestRunning

\* 't' has been pressed and rejected while the task of the job in the slot runs.
C5_Witness ==
    /\ tasks = 1
    /\ provider_test_job # <<>>
    /\ state.screen.kind = "ProviderForm"
    /\ state.status = AnotherTestRunning
    /\ state.provider_draft.connection_status = Testing

\* A step of run_loop that harvests the job of the slot.
Harvested == provider_test_job # <<>> /\ provider_test_job' = <<>>

HarvestedProvider == normalize_provider_name(provider_test_job[1].provider)

HarvestedOutput == provider_test_job[1].handle.output

\* The message of a failed job: the service's error, or the crash of the task.
FailureMessage ==
    IF HarvestedOutput.kind = "err" THEN HarvestedOutput.message
    ELSE "Background test task failed: {e}"

\* The newest entry of the provider's log after the step.
NewestEntry(p) == state'.provider_logs[p][Len(state'.provider_logs[p])]

CountEvent(log, event) == Cardinality({i \in 1..Len(log) : log[i].event = event})

\* What a failed harvest does apart from the form.
FailureRecorded ==
    LET p == HarvestedProvider IN
    /\ p \in DOMAIN state'.provider_test_results
    /\ state'.provider_test_results[p] = Failure(FailureMessage)
    /\ p \in DOMAIN state'.provider_logs
    /\ Len(state'.provider_logs[p]) >= 1
    /\ \E elapsed \in Elapsed :
          NewestEntry(p) = ProviderLogEntry("Error", "test_failed", FailureMessage,
                                            <<>>, <<elapsed>>)
    /\ provider_test_job' = <<>>

FormReset ==
    /\ state'.provider_draft.enabled = FALSE
    /\ state'.provider_draft.connection_status = Failure(FailureMessage)

\* C8 as stated: the form of every failed job that was started from a form is reset.
C8_FormAlwaysReset ==
    [][(Harvested /\ HarvestedOutput.kind # "ok")
          => /\ FailureRecorded
             /\ provider_test_job[1].origin.kind = "Form" => FormReset]_vars

\* C8: when a harvested job failed, by an error of the service or by a crash of the
\* task, provider_test_results[provider] becomes Failure(message), a 'test_failed'
\* entry is the newest of that provider's log, and the slot is empty.  If the job
\* was started from a form and that form is still the current one (the screen is a
\* Provider Form of the same mode and, for the Add form, the draft's name still
\* normalizes to the tested provider), the form's enabled toggle is off and its
\* status is Failure(message); otherwise the draft is left as it was.
C8_FailureHarvested ==
    [][(Harvested /\ HarvestedOutput.kind # "ok")
          => /\ FailureRecorded
             /\ IF /\ provider_test_job[1].origin.kind = "Form"
                   /\ form_job_matches_current(state, provider_test_job[1].origin.mode,
                                               HarvestedProvider)
                THEN FormReset
                ELSE state'.provider_draft = state.provider_draft]_vars

\* The crash of a test started from the form of an enabled provider has been
\* harvested in that form: the toggle is off, the status is the failure.
C8_Witness ==
    LET message == "Background test task failed: {e}" IN
    /\ provider_test_job = <<>>
    /\ state.screen = ProviderForm(Edit(ANTHROPIC))
    /\ IsEnabled(cfg, ANTHROPIC)
    /\ ~state.provider_draft.enabled
    /\ state.provider_draft.connection_status = Failure(message)
    /\ ANTHROPIC \in DOMAIN state.provider_test_results
    /\ state.provider_test_results[ANTHROPIC] = Failure(message)
    /\ state.provider_logs[ANTHROPIC][Len(state.provider_logs[ANTHROPIC])].event = "test_failed"

NewlyEnabled ==
    {cfg'.enabled_providers[i] : i \in 1..Len(cfg'.enabled_providers)}
       \ {cfg.enabled_providers[i] : i \in 1..Len(cfg.enabled_providers)}

\* C6: every provider a step adds to enabled_providers has, at that moment, the
\* cached connection status Success, which only the harvest of a successful test of
\* that provider sets.
C6_EnabledOnlyAfterSuccess ==
    [][\A p \in NewlyEnabled :
          /\ normalize_provider_name(p) \in DOMAIN state.provider_test_results
          /\ state.provider_test_results[normalize_provider_name(p)] = Success]_vars

\* The user has left the form the job of the slot was started from: the screen is
\* not a Provider Form of the job's mode, or the Add form's draft name normalizes to
\* another provider.
NavigatedAway ==
    LET mode == provider_test_job[1].origin.mode IN
    \/ state.screen.kind # "ProviderForm"
    \/ state.screen.mode # mode
    \/ /\ mode.kind = "Add"
       /\ normalize_provider_name(state.provider_draft.name) # HarvestedProvider

\* C12: when a job started from a form is harvested after the user has left that
\* form, the draft's connection_status and enabled are left as they were, while
\* provider_test_results[provider] becomes the job's result and the newest entry
\* of the provider's log is that of the result.  The task of a job is never
\* cancelled: an unfinished job stays in the slot, its task unchanged, until the
\* task has finished.
C12_NavigatedAwayDiscarded ==
    [][/\ (Harvested /\ provider_test_job[1].origin.kind = "Form" /\ NavigatedAway)
            => LET p == HarvestedProvider
                   ok == HarvestedOutput.kind = "ok"
               IN  /\ state'.provider_draft.connection_status
                          = state.provider_draft.connection_status
                   /\ state'.provider_draft.enabled = state.provider_draft.enabled
                   /\ p \in DOMAIN state'.provider_test_results
                   /\ state'.provider_test_results[p]
                          = IF ok THEN Success ELSE Failure(FailureMessage)
                   /\ p \in DOMAIN state'.provider_logs
                   /\ Len(state'.provider_logs[p]) >= 1
                   /\ NewestEntry(p).event = IF ok THEN "test_succeeded" ELSE "test_failed"
       /\ (provider_test_job # <<>> /\ ~provider_test_job[1].handle.finished)
            => /\ provider_test_job' # <<>>
               /\ provider_test_job'[1].task = provider_test_job[1].task
               /\ provider_test_job'[1].provider = provider_test_job[1].provider
               /\ provider_test_job'[1].origin = provider_test_job[1].origin
               /\ tasks' = IF provider_test_job'[1].handle.finished THEN 0 ELSE 1]_vars

\* A test started from a form has been harvested on another screen: the slot is
\* empty, the result is cached and logged, the draft still says Testing.
C12_Witness ==
    /\ provider_test_job = <<>>
    /\ state.screen.kind = "ProviderManager"
    /\ state.provider_draft.connection_status = Testing
    /\ ANTHROPIC \in DOMAIN state.provider_test_results
    /\ state.provider_test_results[ANTHROPIC].kind = "Failure"
    /\ state.provider_logs[ANTHROPIC][Len(state.provider_logs[ANTHROPIC])].event = "test_failed"

\* The loop handles the key now: Press(key) can be taken.
KeyHandled(key) ==
    LET w == handle_key(key.code, key.control, World, SessionIo) IN
    /\ ~(JobFinished /\ provider_test_job[1].handle.polled # "no")
    /\ Len(w.db.usage) <= MaxRows
    /\ Len(w.db.cost) <= MaxRows

\* C13: the loop never waits on a running test.  A job is harvested only when its
\* task has finished; while the task runs, the loop handles key events; and once
\* the loop has handled a key or ended an iteration with the finished job in the
\* slot, the next thing it does is the harvest, before any other key is handled
\* (after a key, only the refresh that ends the same iteration may come first).
C13_NeverWaits ==
    /\ []((/\ phase = "tui"
           /\ state.running
           /\ provider_test_job # <<>>
           /\ ~provider_test_job[1].handle.finished)
             => /\ ManagerSessionKeys(state) # {}
                /\ \A key \in ManagerSessionKeys(state) : KeyHandled(key))
    /\ [][/\ Harvested => provider_test_job[1].handle.finished
          /\ (JobFinished /\ provider_test_job[1].handle.polled = "key")
                => \/ Harvested
                   \/ /\ provider_test_job' # <<>>
                      /\ provider_test_job'[1].handle.polled = "tick"
          /\ (JobFinished /\ provider_test_job[1].handle.polled = "tick")
                => Harvested]_vars

\* The task finished while the loop was past its harvest: a key has been handled
\* with the finished job in the slot, and the harvest is what comes next.
C13_Witness ==
    /\ JobFinished
    /\ provider_test_job[1].handle.polled = "key"
    /\ state.status = AnotherTestRunning

Queued == provider_test_job = <<>> /\ provider_test_job' # <<>>

TaskEnded ==
    /\ provider_test_job # <<>>
    /\ provider_test_job' # <<>>
    /\ ~provider_test_job[1].handle.finished
    /\ provider_test_job'[1].handle.finished

\* What a refresh under `io` stores, computed from the durable data and the window
\* alone.
RefreshedStore(io) ==
    refresh(Db, [cfg |-> cfg,
                 keys |-> {P \in Range(Adapters) : get_api_key(keyring, P, io) # <<>>},
                 fetch |-> io.fetch],
            state.window, io.now, 0).store.db

\* C19: a step that queues a connection test, the end of its task, and its harvest
\* leave both tables, the configuration and the keyring as they were; and whatever
\* tests are queued, running or harvested, every change of the tables is the one a
\* refresh makes from the tables, the configuration, the keyring and the window.
C19_TestsLeaveDurableData ==
    [][/\ (Queued \/ TaskEnded \/ Harvested) =>
             /\ usage_records' = usage_records
             /\ cost_records' = cost_records
             /\ cfg' = cfg
             /\ keyring' = keyring
             /\ state'.window = state.window
       /\ (usage_records' # usage_records \/ cost_records' # cost_records) =>
             \E io \in DashboardIos :
                 [usage |-> usage_records', cost |-> cost_records'] = RefreshedStore(io)]_vars

\* C19 witness: a test of anthropic has been harvested as failed while the tables
\* hold the rows of a refresh, and the Dashboard shows their totals.
C19_Witness ==
    /\ phase = "tui"
    /\ provider_test_job = <<>>
    /\ ANTHROPIC \in DOMAIN state.provider_test_results
    /\ state.provider_test_results[ANTHROPIC].kind = "Failure"
    /\ state.status.text = "Connection test failed for '{provider}': {message}"
    /\ state.screen = Dashboard
    /\ Len(usage_records) = 2
    /\ Len(cost_records) = 1
    /\ state.view.tokens = 3000
    /\ IsEnabled(cfg, ANTHROPIC)

\* The refresh under `io` fails: an enabled adapter has no key or its fetch fails,
\* or the commit fails.
RefreshFails(io) ==
    \/ \E P \in Range(Adapters) :
          /\ \E name \in Range(cfg.enabled_providers) :
                to_ascii_lowercase(name) = to_ascii_lowercase(P)
          /\ \/ ~io.keyring_ok
             \/ P \notin DOMAIN keyring
             \/ ~io.fetch[P].ok
    \/ ~io.commit_ok

RefreshFailed == "refresh failed: {err}"

StorageFails(io) ==
    /\ \A P \in Range(Adapters) : IsEnabled(cfg, P) =>
          get_api_key(keyring, P, io) # <<>> /\ io.fetch[P].ok
    /\ ~io.commit_ok \/ ~io.aggregate_ok

\* C21: whenever replace_snapshot or aggregate_since fails in a Dashboard refresh,
\* the refresh ends in an error shown to the user (the status is the failure) and is
\* never reported as "ok".
C21_StorageErrorsSurfaced ==
    phase = "tui" =>
        \A io \in DashboardIos : StorageFails(io) =>
            \A w \in {refresh_dashboard(World, io)} :
                /\ w.state.status.text = RefreshFailed
                /\ w.state.status # Msg("ok", <<>>, "")

-----------------------------------------------------------------------------
(* The cost export and its round trip (src/src/storage.rs, src/src/main.rs) *)

Quote == "\""

Backslash == "\\"

\* A model name that needs escaping in JSON text.
QUOTED_MODEL == <<"g", Quote, "4", Backslash, "o">>

json_escape_raw(s) == s

\* serde_json's string literal: the text between quotes, with `"` and `\` escaped.
RECURSIVE json_escape(_)
json_escape(s) ==
    IF s = <<>> THEN <<>>
    ELSE (IF Head(s) \in {Quote, Backslash} THEN <<Backslash, Head(s)>> ELSE <<Head(s)>>)
         \o json_escape(Tail(s))

json_string(s) == <<Quote>> \o json_escape(s) \o <<Quote>>

RECURSIVE json_unescape(_)
json_unescape(s) ==
    IF s = <<>> THEN <<>>
    ELSE IF Head(s) = Backslash /\ Len(s) >= 2
         THEN <<s[2]>> \o json_unescape(SubSeq(s, 3, Len(s)))
         ELSE <<Head(s)>> \o json_unescape(Tail(s))

parse_json_string(lit) == json_unescape(SubSeq(lit, 2, Len(lit) - 1))

\* A cost as a number literal: the decimal digits of its amount.
RECURSIVE json_number(_)
json_number(n) ==
    IF n < 10 THEN <<Digits[n + 1]>>
    ELSE json_number(n \div 10) \o <<Digits[(n % 10) + 1]>>

DigitValue(c) == (CHOOSE k \in DOMAIN Digits : Digits[k] = c) - 1

RECURSIVE parse_json_number(_)
parse_json_number(lit) ==
    IF Len(lit) = 1 THEN DigitValue(lit[1])
    ELSE parse_json_number(SubSeq(lit, 1, Len(lit) - 1)) * 10 + DigitValue(lit[Len(lit)])

\* serde_json reading an f64: the double nearest to the literal when the crate is
\* built with its float_roundtrip feature, and otherwise that double or its
\* neighbour (`ulp` units away).
parse_f64(lit, ulp) == parse_json_number(lit) + ulp

CostFields == {"input_cost", "output_cost", "total_cost"}

FloatErrors(float_roundtrip) ==
    IF float_roundtrip THEN {[f \in CostFields |-> 0]} ELSE [CostFields -> {0, 1}]

\* A DateTime<Utc> as serde writes it, and as serde reads it.
json_timestamp(t) == json_string([i \in 1..4 |-> Digits[to_rfc3339(t)[i] + 1]] \o <<"Z">>)

parse_json_timestamp(lit) ==
    LET text == parse_json_string(lit)
    IN  Instant([i \in 1..4 |-> DigitValue(text[i])])

\* ORDER BY timestamp DESC: the orders of the rows the database may return, rows
\* of equal timestamps in any order.
ExportOrders(rows) ==
    {o \in Orders(DOMAIN rows) :
        \A i, j \in DOMAIN o : i < j => TextGE(rows[o[i]].timestamp, rows[o[j]].timestamp)}

\* Storage::export_cost_json: every cost row, its timestamp parsed from the stored
\* text, as a JSON array of objects (each a list of named literals).
export_cost_json(rows, order) ==
    [k \in DOMAIN order |->
        LET r == rows[order[k]]
        IN  << <<"provider", json_string(r.provider)>>,
               <<"model", json_string(r.model)>>,
               <<"input_cost", json_number(r.input_cost)>>,
               <<"output_cost", json_number(r.output_cost)>>,
               <<"total_cost", json_number(r.total_cost)>>,
               <<"currency", json_string(r.currency)>>,
               <<"timestamp", json_timestamp(Instant(r.timestamp))>> >>]

JsonField(obj, name) == (CHOOSE f \in Range(obj) : f[1] = name)[2]

\* serde_json::from_str::<Vec<CostRecord>>.
from_str(json, ulps) ==
    [k \in DOMAIN json |->
        [provider |-> parse_json_string(JsonField(json[k], "provider")),
         model |-> parse_json_string(JsonField(json[k], "model")),
         input_cost |-> parse_f64(JsonField(json[k], "input_cost"), ulps.input_cost),
         output_cost |-> parse_f64(JsonField(json[k], "output_cost"), ulps.output_cost),
         total_cost |-> parse_f64(JsonField(json[k], "total_cost"), ulps.total_cost),
         currency |-> parse_json_string(JsonField(json[k], "currency")),
         timestamp |-> parse_json_timestamp(JsonField(json[k], "timestamp"))]]

\* Cost records to insert: two models (one needing escapes), three different cost
\* components, every instant.
ExportRows ==
    {[provider |-> OPENAI, model |-> model,
      input_cost |-> Cents(1), output_cost |-> Cents(1) + 5, total_cost |-> Cents(2) + 5,
      currency |-> USD, timestamp |-> ts] :
        model \in {GPT_4O, QUOTED_MODEL}, ts \in Times}

ExportInit ==
    /\ usage_records = <<>>
    /\ \E rows \in TablesOf(ExportRows) : cost_records = Stored(rows)
    /\ pc = "idle"
    /\ last_call = NoCall
    /\ result = "none"
    /\ tx_dirty = FALSE
    /\ repeated = FALSE
    /\ RefreshInit
    /\ UiInit
    /\ PricingInit
    /\ AggregateCallInit
    /\ DirectCallInit

\* `llm-meter export --format json`, and the output parsed back.
ExportCostJson ==
    /\ direct_call = NoDirectCall
    /\ \E order \in ExportOrders(cost_records), float_roundtrip \in BOOLEAN :
          \E ulps \in FloatErrors(float_roundtrip) :
              \E json \in {export_cost_json(cost_records, order)} :
                  /\ direct_call' = [op |-> "export_cost_json", json |-> json,
                                     parsed |-> from_str(json, ulps)]
                  /\ UNCHANGED <<storeVars, refresh_call, pricing_call, aggregate_call,
                                 uiVars>>

ExportNext == ExportCostJson

SpecExport == ExportInit /\ [][ExportNext]_vars

\* The cost record a stored row was inserted from.
Inserted(row) == [row EXCEPT !.timestamp = Instant(@)]

\* The parsed records are the inserted records of all cost rows, each once, in
\* an order that is newest first, the cost components within `tolerance`.
RoundTrip(parsed, rows, tolerance) ==
    /\ \E order \in Orders(DOMAIN rows) :
          /\ DOMAIN parsed = DOMAIN order
          /\ \A k \in DOMAIN order :
                LET r == Inserted(rows[order[k]])
                IN  /\ parsed[k].provider = r.provider
                    /\ parsed[k].model = r.model
                    /\ parsed[k].currency = r.currency
                    /\ parsed[k].timestamp = r.timestamp
                    /\ \A f \in CostFields :
                          /\ parsed[k][f] - r[f] <= tolerance
                          /\ r[f] - parsed[k][f] <= tolerance
    /\ \A i, j \in DOMAIN parsed : i < j => parsed[i].timestamp >= parsed[j].timestamp

\* The largest difference the reading of an f64 may introduce.
FloatTolerance == 1

\* C22: the cost export returns every cost row, newest first, and parsing the
\* exported JSON gives one record per stored cost row whose provider, model,
\* currency and timestamp equal the inserted record's and whose input, output and
\* total cost are within floating-point tolerance of it.
C22_ExportRoundTrip ==
    direct_call.op = "export_cost_json" =>
        RoundTrip(direct_call.parsed, cost_records, FloatTolerance)

\* C22 as stated: every field of the parsed record, the cost components too, is
\* equal to the inserted record's.
C22_ExportRoundTripExact ==
    direct_call.op = "export_cost_json" =>
        RoundTrip(direct_call.parsed, cost_records, 0)

\* C22 witness: two rows, the older stored first and its model needing escapes;
\* the export lists the newer first and both come back as inserted.
C22_Witness ==
    /\ direct_call.op = "export_cost_json"
    /\ Len(cost_records) = 2
    /\ cost_records[1].timestamp = to_rfc3339(0)
    /\ cost_records[1].model = QUOTED_MODEL
    /\ cost_records[2].timestamp = to_rfc3339(1)
    /\ direct_call.parsed = <<Inserted(cost_records[2]), Inserted(cost_records[1])>>
    /\ JsonField(direct_call.json[2], "model") # <<Quote>> \o QUOTED_MODEL \o <<Quote>>

-----------------------------------------------------------------------------
(* Connection tests (src/src/service.rs, src/src/providers/openai.rs,
   src/src/providers/anthropic.rs) *)

Ok(value) == [ok |-> TRUE, value |-> value]

Err(error) == [ok |-> FALSE, error |-> error]

\* An AppError: its variant, the text of its message and the value formatted into
\* the message.
AppError(variant, text, arg) == [variant |-> variant, text |-> text, arg |-> arg]

\* What the network answers to a request: no response at all, or a response with
\* a status.
NoResponse == [responded |-> FALSE, status |-> 0]

Response(status) == [responded |-> TRUE, status |-> status]

\* The statuses of the model: the borders of the 2xx class, 401 and 403 and their
\* neighbours, and one status of every other class.
Statuses == {100, 199, 200, 204, 299, 300, 400, 401, 402, 403, 404, 500}

Responses == {NoResponse} \cup {Response(status) : status \in Statuses}

\* StatusCode::is_success.
is_success(status) == 200 <= status /\ status < 300

RejectedCredentials == "{adapter} rejected credentials (unauthorized)."

ConnectionFailed == "{adapter} connection failed with HTTP status {status}."

test_connection_all_generic(adapter, response) ==
    IF ~response.responded THEN Err(AppError("Http", "request failed", <<>>))
    ELSE IF is_success(response.status) THEN Ok(<<response.status>>)
    ELSE Err(AppError("Config", ConnectionFailed, <<adapter, response.status>>))

\* OpenAiAdapter::test_connection and AnthropicAdapter::test_connection, which
\* differ in the request's headers and in the adapter named by the messages.
test_connection(adapter, response) ==
    IF ~response.responded THEN Err(AppError("Http", "request failed", <<>>))
    ELSE IF is_success(response.status) THEN Ok(<<response.status>>)
    ELSE IF response.status = 401 \/ response.status = 403
         THEN Err(AppError("Config", RejectedCredentials, <<adapter>>))
         ELSE Err(AppError("Config", ConnectionFailed, <<adapter, response.status>>))

UnsupportedProvider == "Unsupported provider '{provider}'."

\* The adapter `provider` names, the requests sent, and the result.
Dispatch(adapter, net, elapsed) ==
    LET status_code == test_connection(adapter, net[adapter])
    IN  [requests |-> <<adapter>>,
         ret |-> IF status_code.ok
                 THEN Ok([status_code |-> status_code.value, duration_ms |-> elapsed])
                 ELSE status_code]

test_provider_connection_as_given(provider, net, elapsed) ==
    IF provider = OPENAI THEN Dispatch(OPENAI, net, elapsed)
    ELSE IF provider = ANTHROPIC THEN Dispatch(ANTHROPIC, net, elapsed)
    ELSE [requests |-> <<>>, ret |-> Err(AppError("Config", UnsupportedProvider, <<provider>>))]

\* MeterService::test_provider_connection.
test_provider_connection(provider, net, elapsed) ==
    LET name == normalize_provider_name(provider)
    IN  IF name = OPENAI THEN Dispatch(OPENAI, net, elapsed)
        ELSE IF name = ANTHROPIC THEN Dispatch(ANTHROPIC, net, elapsed)
        ELSE [requests |-> <<>>,
              ret |-> Err(AppError("Config", UnsupportedProvider, <<name>>))]

GEMINI == <<"g", "e", "m", "i", "n", "i">>

ANTHROPIC_UPPER == <<"A", "N", "T", "H", "R", "O", "P", "I", "C">>

\* Provider names to test: the adapters' names as written, in another case and
\* padded, a near miss, an unknown name and empty names.
ConnectionProviders ==
    {OPENAI, ANTHROPIC, OPENAI_MIXED, OPENAI_PADDED, ANTHROPIC_UPPER,
     OPENAI \o <<"2">>, GEMINI, <<>>, <<" ">>}

\* One call of test_provider_connection, under any answers of the two services.
TestProviderConnection ==
    /\ direct_call = NoDirectCall
    /\ \E provider \in ConnectionProviders, net \in [Range(Adapters) -> Responses],
          elapsed \in Elapsed :
          \E done \in {test_provider_connection(provider, net, elapsed)} :
              /\ direct_call' = [op |-> "test_provider_connection", provider |-> provider,
                                 net |-> net, requests |-> done.requests, ret |-> done.ret]
              /\ UNCHANGED <<storeVars, refresh_call, pricing_call, aggregate_call, uiVars>>

ConnectionNext == TestProviderConnection

SpecConnection == Init /\ [][ConnectionNext]_vars

\* The adapter whose name `provider` is, whatever its case and padding.
KnownAdapter(provider) ==
    {A \in Range(Adapters) : eq_ignore_ascii_case(trim(provider), A)}

\* C23: test_provider_connection with a name that, trimmed and lowercased, is no
\* adapter's returns a configuration error and sends no request; a known name in
\* any letter case is dispatched to its adapter, which receives the one request.
C23_UnknownProviderNotDispatched ==
    direct_call.op = "test_provider_connection" =>
        /\ KnownAdapter(direct_call.provider) = {} =>
              /\ direct_call.requests = <<>>
              /\ ~direct_call.ret.ok
              /\ direct_call.ret.error.variant = "Config"
              /\ direct_call.ret.error.text = UnsupportedProvider
        /\ \A A \in KnownAdapter(direct_call.provider) :
              /\ direct_call.requests = <<A>>
              /\ direct_call.ret.ok \/ direct_call.ret.error.text # UnsupportedProvider

\* C23 witness: an unknown name was refused without a request although both
\* services would have answered 200.
C23_Witness ==
    /\ direct_call.op = "test_provider_connection"
    /\ direct_call.provider = GEMINI
    /\ \A A \in Range(Adapters) : direct_call.net[A] = Response(200)
    /\ direct_call.requests = <<>>
    /\ direct_call.ret = Err(AppError("Config", UnsupportedProvider, <<GEMINI>>))

\* C24: a dispatched test classifies the response by its status: 2xx is a success
\* carrying the status; 401 and 403 are a credential rejection, an error no other
\* answer produces; any other status is a connection failure whose message
\* carries the status.
C24_StatusClassified ==
    direct_call.op = "test_provider_connection" =>
        \A A \in KnownAdapter(direct_call.provider) :
            \A status \in Statuses : direct_call.net[A] = Response(status) =>
                /\ (status \in 200..299) =>
                      /\ direct_call.ret.ok
                      /\ direct_call.ret.value.status_code = <<status>>
                /\ (status \in {401, 403}) =>
                      /\ ~direct_call.ret.ok
                      /\ direct_call.ret.error.text = RejectedCredentials
                      /\ \A other \in Responses \ {Response(401), Response(403)} :
                            test_connection(A, other) # direct_call.ret
                /\ (status \notin (200..299) \cup {401, 403}) =>
                      /\ ~direct_call.ret.ok
                      /\ direct_call.ret.error.text = ConnectionFailed
                      /\ direct_call.ret.error.arg = <<A, status>>

\* C24 witness: anthropic answered 403 and the test failed with the credential
\* rejection.
C24_Witness ==
    /\ direct_call.op = "test_provider_connection"
    /\ direct_call.provider = ANTHROPIC_UPPER
    /\ direct_call.net[ANTHROPIC] = Response(403)
    /\ direct_call.requests = <<ANTHROPIC>>
    /\ direct_call.ret = Err(AppError("Config", RejectedCredentials, <<ANTHROPIC>>))

-----------------------------------------------------------------------------
(* fetch_usage of the adapters (src/src/providers/openai.rs,
   src/src/providers/anthropic.rs) *)

\* serde_json::Value, as far as the adapters look at it.
Absent == [kind |-> "absent"]

Null == [kind |-> "null"]

Str(text) == [kind |-> "string", text |-> text]

Num(n) == [kind |-> "number", n |-> n]

Array(items) == [kind |-> "array", items |-> items]

Object(fields) == [kind |-> "object", fields |-> fields]

\* Value::get: the member of an object, nothing for a missing member and for a
\* value that is no object.
Get(value, key) ==
    IF value.kind = "object" /\ key \in DOMAIN value.fields THEN value.fields[key] ELSE Absent

as_str(value) == IF value.kind = "string" THEN <<value.text>> ELSE <<>>

as_u64(value) == IF value.kind = "number" /\ value.n >= 0 THEN <<value.n>> ELSE <<>>

as_i64(value) == IF value.kind = "number" THEN <<value.n>> ELSE <<>>

as_array(value) == IF value.kind = "array" THEN <<value.items>> ELSE <<>>

\* Option::or and Option::unwrap_or.
Or(a, b) == IF a # <<>> THEN a ELSE b

UnwrapOr(a, default) == IF a # <<>> THEN a[1] ELSE default

\* The last second chrono can represent (9999 is the last instant to_rfc3339
\* writes in four digits).
MaxEpoch == 9999

\* Utc.timestamp_opt(secs, 0).single().
timestamp_opt(secs) == IF 0 <= secs /\ secs <= MaxEpoch THEN <<secs>> ELSE <<>>

\* RFC3339 text of an upstream item, and DateTime::parse_from_rfc3339 of it.
Rfc3339(t) == [i \in 1..4 |-> Digits[to_rfc3339(t)[i] + 1]]

parse_from_rfc3339(raw) ==
    IF Len(raw) = 4 /\ \A i \in 1..4 : raw[i] \in Range(Digits)
    THEN <<Instant([i \in 1..4 |-> DigitValue(raw[i])])>>
    ELSE <<>>

\* `if let Some(raw) = item.get(key).and_then(Value::as_str)` with the parse inside.
ParsedText(item, key) ==
    IF as_str(Get(item, key)) # <<>> THEN parse_from_rfc3339(as_str(Get(item, key))[1])
    ELSE <<>>

\* OpenAiAdapter::parse_item_timestamp.
openai_parse_item_timestamp(item) ==
    IF as_i64(Get(item, "start_time")) # <<>>
    THEN timestamp_opt(as_i64(Get(item, "start_time"))[1])
    ELSE IF as_i64(Get(item, "timestamp")) # <<>>
    THEN timestamp_opt(as_i64(Get(item, "timestamp"))[1])
    ELSE IF ParsedText(item, "start_time") # <<>> THEN ParsedText(item, "start_time")
    ELSE ParsedText(item, "timestamp")

\* AnthropicAdapter::parse_item_timestamp.
anthropic_parse_item_timestamp(item) ==
    IF ParsedText(item, "starting_at") # <<>> THEN ParsedText(item, "starting_at")
    ELSE IF ParsedText(item, "ending_at") # <<>> THEN ParsedText(item, "ending_at")
    ELSE IF as_i64(Get(item, "timestamp")) # <<>>
    THEN timestamp_opt(as_i64(Get(item, "timestamp"))[1])
    ELSE <<>>

parse_item_timestamp(adapter, item) ==
    IF adapter = OPENAI THEN openai_parse_item_timestamp(item)
    ELSE anthropic_parse_item_timestamp(item)

\* The UsageRecord pushed for one item of the data array.
usage_record(adapter, item, refresh_end) ==
    [provider |-> adapter,
     model |-> UnwrapOr(as_str(Get(item, "model")), UNKNOWN),
     input_tokens |->
        IF adapter = OPENAI THEN UnwrapOr(as_u64(Get(item, "input_tokens")), 0)
        ELSE UnwrapOr(Or(as_u64(Get(item, "input_tokens")), as_u64(Get(item, "tokens_in"))), 0),
     output_tokens |->
        IF adapter = OPENAI THEN UnwrapOr(as_u64(Get(item, "output_tokens")), 0)
        ELSE UnwrapOr(Or(as_u64(Get(item, "output_tokens")), as_u64(Get(item, "tokens_out"))), 0),
     cached_tokens |->
        IF adapter = OPENAI THEN UnwrapOr(as_u64(Get(item, "input_cached_tokens")), 0) ELSE 0,
     timestamp |-> UnwrapOr(parse_item_timestamp(adapter, item), refresh_end)]

\* Response::error_for_status: an error for a 4xx or 5xx status.
error_for_status(status) == (400 <= status /\ status < 500) \/ (500 <= status /\ status < 600)

\* A response with a body: text that is no JSON, or a JSON value.
NotJson == [json |-> FALSE]

Json(value) == [json |-> TRUE, value |-> value]

Answer(status, body) == [responded |-> TRUE, status |-> status, body |-> body]

\* fetch_usage of both adapters: the request, error_for_status, the body as JSON,
\* and one record per item of `data`.
fetch_usage(adapter, response, refresh_end) ==
    IF ~response.responded THEN Err(AppError("Http", "request failed", <<>>))
    ELSE IF error_for_status(response.status)
    THEN Err(AppError("Http", "status", <<response.status>>))
    ELSE IF ~response.body.json THEN Err(AppError("Http", "decode", <<>>))
    ELSE LET items == UnwrapOr(as_array(Get(response.body.value, "data")), <<>>)
         IN  Ok([i \in DOMAIN items |-> usage_record(adapter, items[i], refresh_end)])

NOPE == <<"n", "o", "p", "e">>

\* Items of a data array. Token items: every combination of a model that is
\* missing, a name or null, and of token counts that are missing or present under
\* either name, one a string and one negative. Time items: every combination of
\* the four timestamp fields missing, epoch seconds (one out of range), RFC3339
\* text or other text, each field holding another instant.
ItemOf(model, tokens, times) ==
    Object([model |-> model,
            input_tokens |-> tokens.input_tokens, output_tokens |-> tokens.output_tokens,
            input_cached_tokens |-> tokens.input_cached_tokens,
            tokens_in |-> tokens.tokens_in, tokens_out |-> tokens.tokens_out,
            start_time |-> times.start_time, timestamp |-> times.timestamp,
            starting_at |-> times.starting_at, ending_at |-> times.ending_at])

TokenCounts ==
    [input_tokens : {Absent, Num(7)}, output_tokens : {Absent, Num(9), Str(<<"9">>)},
     input_cached_tokens : {Absent, Num(2)}, tokens_in : {Absent, Num(11)},
     tokens_out : {Absent, Num(-1)}]

NoTokens ==
    [input_tokens |-> Absent, output_tokens |-> Absent, input_cached_tokens |-> Absent,
     tokens_in |-> Absent, tokens_out |-> Absent]

ItemTimes ==
    [start_time : {Absent, Num(1), Num(MaxEpoch + 1), Str(Rfc3339(2)), Str(NOPE)},
     timestamp : {Absent, Num(3), Str(Rfc3339(4)), Str(NOPE)},
     starting_at : {Absent, Str(Rfc3339(5)), Str(NOPE)},
     ending_at : {Absent, Str(Rfc3339(6)), Num(6)}]

NoTimes ==
    [start_time |-> Absent, timestamp |-> Absent, starting_at |-> Absent, ending_at |-> Absent]

FetchItems ==
    {ItemOf(model, tokens, NoTimes) :
        model \in {Absent, Null, Str(GPT_4O)}, tokens \in TokenCounts}
    \cup {ItemOf(Str(GPT_4O), NoTokens, times) : times \in ItemTimes}
    \cup {Str(GPT_4O)}

FewItems ==
    {ItemOf(Absent, NoTokens, NoTimes),
     ItemOf(Str(GPT_4O), [NoTokens EXCEPT !.input_tokens = Num(7)],
            [NoTimes EXCEPT !.timestamp = Num(3)]),
     ItemOf(Str(GPT_4O_MINI), [NoTokens EXCEPT !.tokens_out = Num(11)],
            [NoTimes EXCEPT !.starting_at = Str(Rfc3339(5))])}

\* Bodies: no JSON, JSON without a data array, and data arrays of no, one and two
\* items.
FewBodies ==
    {NotJson, Json(Null), Json(Object([error |-> Str(NOPE)])),
     Json(Object([data |-> Str(NOPE)])), Json(Object([data |-> Array(<<>>)]))}
    \cup {Json(Object([data |-> Array(<<a, b>>)])) : a, b \in FewItems}

FetchBodies == FewBodies \cup {Json(Object([data |-> Array(<<item>>)])) : item \in FetchItems}

\* The statuses a response can end with: 2xx, a 3xx that is no followed redirect,
\* 4xx and 5xx.
FetchStatuses == {200, 206, 300, 304, 400, 401, 404, 500}

FetchResponses ==
    {NoResponse} \cup {Answer(200, body) : body \in FetchBodies}
    \cup {Answer(status, body) : status \in FetchStatuses, body \in FewBodies}

\* One call of fetch_usage of an adapter.
FetchUsage ==
    /\ direct_call = NoDirectCall
    /\ \E adapter \in Range(Adapters), response \in FetchResponses,
          refresh_end \in {as_hours("OneDay")} :
          /\ direct_call' = [op |-> "fetch_usage", adapter |-> adapter,
                             response |-> response, refresh_end |-> refresh_end,
                             ret |-> fetch_usage(adapter, response, refresh_end)]
          /\ UNCHANGED <<storeVars, refresh_call, pricing_call, aggregate_call, uiVars>>

FetchNext == FetchUsage

SpecFetch == Init /\ [][FetchNext]_vars

\* The items of the data array of the response of the call made.
DataItems ==
    LET body == direct_call.response.body.value
    IN  IF body.kind = "object" /\ "data" \in DOMAIN body.fields
           /\ body.fields.data.kind = "array"
        THEN body.fields.data.items
        ELSE <<>>

\* The count an item holds under one of `keys`, the first that holds one.
CountUnder(item, keys) ==
    LET held == SelectSeq(keys, LAMBDA k : Get(item, k).kind = "number" /\ Get(item, k).n >= 0)
    IN  IF held = <<>> THEN <<>> ELSE <<Get(item, held[1]).n>>

\* The names under which an adapter reads the three token counts.
CountKeys(adapter) ==
    IF adapter = OPENAI
    THEN [input_tokens |-> <<"input_tokens">>, output_tokens |-> <<"output_tokens">>,
          cached_tokens |-> <<"input_cached_tokens">>]
    ELSE [input_tokens |-> <<"input_tokens", "tokens_in">>,
          output_tokens |-> <<"output_tokens", "tokens_out">>,
          cached_tokens |-> <<>>]

\* The records returned are one per item, in order, each with the adapter's name,
\* the item's model name or "unknown", and the item's counts or 0.
MapsItems ==
    /\ direct_call.ret.ok
    /\ DOMAIN direct_call.ret.value = DOMAIN DataItems
    /\ \A i \in DOMAIN DataItems :
          LET item == DataItems[i]
              r == direct_call.ret.value[i]
          IN  /\ r.provider = direct_call.adapter
              /\ r.model = (IF Get(item, "model").kind = "string"
                            THEN Get(item, "model").text ELSE UNKNOWN)
              /\ \A f \in {"input_tokens", "output_tokens", "cached_tokens"} :
                    LET held == CountUnder(item, CountKeys(direct_call.adapter)[f])
                    IN  r[f] = (IF held = <<>> THEN 0 ELSE held[1])

\* A 2xx response with a JSON body is mapped item by item.
FetchMapsItems ==
    (/\ direct_call.op = "fetch_usage"
     /\ direct_call.response.responded
     /\ is_success(direct_call.response.status)
     /\ direct_call.response.body.json) => MapsItems

\* C25: fetch_usage fails on any non-2xx response; a 2xx response gives one
\* UsageRecord per item of the data array, in order, with the adapter's name as
\* provider, "unknown" for a missing model name and 0 for a missing token count,
\* and the empty list when there is no data array.
C25_FetchUsage ==
    direct_call.op = "fetch_usage" /\ direct_call.response.responded =>
        /\ ~is_success(direct_call.response.status) => ~direct_call.ret.ok
        /\ FetchMapsItems

\* The instant a field holds as epoch seconds, and the recognised fields of an
\* adapter in the order in which parse_item_timestamp tries them.
EpochOf(item, key) ==
    IF Get(item, key).kind = "number" THEN timestamp_opt(Get(item, key).n) ELSE <<>>

TimestampFields(adapter, item) ==
    IF adapter = OPENAI
    THEN <<EpochOf(item, "start_time"), EpochOf(item, "timestamp"),
           ParsedText(item, "start_time"), ParsedText(item, "timestamp")>>
    ELSE <<ParsedText(item, "starting_at"), ParsedText(item, "ending_at"),
           EpochOf(item, "timestamp")>>

Parseable(fields) == SelectSeq(fields, LAMBDA v : v # <<>>)

\* C26: the timestamp of a record is refresh_end only when no recognised field of
\* its item holds a parseable value; otherwise it is the value of the first
\* parseable field in the adapter's priority order.
C26_TimestampFallback ==
    direct_call.op = "fetch_usage" /\ direct_call.ret.ok =>
        \A i \in DOMAIN DataItems :
            LET parseable == Parseable(TimestampFields(direct_call.adapter, DataItems[i]))
            IN  direct_call.ret.value[i].timestamp =
                    (IF parseable = <<>> THEN direct_call.refresh_end ELSE parseable[1][1])

-----------------------------------------------------------------------------
(* normalize_config (src/src/config.rs) *)

normalize_enabled_keeps_duplicates(providers, acc) ==
    [enabled |-> [i \in DOMAIN providers |-> normalize_provider_name(providers[i])],
     changed |-> \E i \in DOMAIN providers :
                    normalize_provider_name(providers[i]) # providers[i]]

\* The loop over config.enabled_providers: `acc` is the list built so far and
\* whether anything changed.
RECURSIVE normalize_enabled(_, _)
normalize_enabled(providers, acc) ==
    IF providers = <<>> THEN acc
    ELSE LET normalized == normalize_provider_name(Head(providers))
             duplicate == normalized \in Range(acc.enabled)
         IN  normalize_enabled(Tail(providers),
                [enabled |-> IF duplicate THEN acc.enabled
                             ELSE Append(acc.enabled, normalized),
                 changed |-> acc.changed \/ normalized # Head(providers) \/ duplicate])

\* The loop over the provider_settings map, whose keys it meets in `order`.
RECURSIVE normalize_settings(_, _, _)
normalize_settings(settings, order, acc) ==
    IF order = <<>> THEN acc
    ELSE LET normalized == normalize_provider_name(Head(order))
         IN  normalize_settings(settings, Tail(order),
                [map |-> Insert(acc.map, normalized, settings[Head(order)]),
                 changed |-> acc.changed \/ normalized # Head(order)])

\* normalize_config: the configuration it leaves and the flag it returns.
normalize_config(config, order) ==
    LET enabled == normalize_enabled(config.enabled_providers,
                                     [enabled |-> <<>>, changed |-> FALSE])
        settings == normalize_settings(config.provider_settings, order,
                                       [map |-> EmptyMap, changed |-> FALSE])
        overrides == [i \in DOMAIN config.pricing_overrides |->
                         [config.pricing_overrides[i] EXCEPT
                             !.provider = normalize_provider_name(@)]]
    IN  [config |-> [enabled_providers |-> enabled.enabled,
                     provider_settings |-> settings.map,
                     pricing_overrides |-> overrides],
         changed |-> \/ enabled.changed
                     \/ settings.changed
                     \/ \E i \in DOMAIN overrides :
                           overrides[i].provider # config.pricing_overrides[i].provider]

OverrideFor(provider) ==
    [input_per_1m |-> 100, model_pattern |-> GPT_4O, output_per_1m |-> 200,
     provider |-> provider]

MaxEnabled == 3    \* entries of enabled_providers in a configuration file

\* Configurations a file may hold: names as written by the program, padded, in
\* other cases and repeated, in all three places.
NormalizeNames == {OPENAI, OPENAI_PADDED, ANTHROPIC, ANTHROPIC_UPPER}

SettingsFor(key) == [base_url |-> <<key>>, organization_id |-> <<>>]

NormalizeConfigs ==
    {[enabled_providers |-> enabled,
      pricing_overrides |-> overrides,
      provider_settings |-> [k \in keys |-> SettingsFor(k)]] :
        enabled \in UNION {[1..n -> NormalizeNames] : n \in 0..MaxEnabled},
        keys \in SUBSET {OPENAI, OPENAI_PADDED, ANTHROPIC_UPPER},
        overrides \in {<<>>, <<OverrideFor(OPENAI)>>, <<OverrideFor(OPENAI_MIXED)>>,
                       <<OverrideFor(OPENAI), OverrideFor(OPENAI_PADDED)>>}}

\* load_config's call of normalize_config, and a second call on its result.
NormalizeConfig ==
    /\ direct_call = NoDirectCall
    /\ \E config \in NormalizeConfigs :
          \E order \in Orders(DOMAIN config.provider_settings) :
              \E ret \in {normalize_config(config, order)} :
                  \E again \in Orders(DOMAIN ret.config.provider_settings) :
                      /\ direct_call' = [op |-> "normalize_config", config |-> config,
                                         ret |-> ret,
                                         second |-> normalize_config(ret.config, again)]
                      /\ UNCHANGED <<storeVars, refresh_call, pricing_call, aggregate_call,
                                     uiVars>>

NormalizeNext == NormalizeConfig

SpecNormalize == Init /\ [][NormalizeNext]_vars

\* The positions of a list of names at which a name occurs first, whatever its
\* padding and case.
FirstOccurrences(names) ==
    {i \in DOMAIN names :
        \A j \in 1..(i - 1) :
            normalize_provider_name(names[j]) # normalize_provider_name(names[i])}

\* C27: normalize_config leaves every enabled name, settings key and override
\* provider trimmed and lowercased, keeps of the enabled names the first
\* occurrences in their order, returns true exactly when the configuration it
\* leaves differs from the one it was given, and a second call changes nothing and
\* returns false.
C27_NormalizeConfig ==
    direct_call.op = "normalize_config" =>
        LET given == direct_call.config
            left == direct_call.ret.config
            firsts == FirstOccurrences(given.enabled_providers)
        IN  /\ Len(left.enabled_providers) = Cardinality(firsts)
            /\ \A i \in firsts :
                  left.enabled_providers[Cardinality({j \in firsts : j <= i})] =
                      to_ascii_lowercase(trim(given.enabled_providers[i]))
            /\ DOMAIN left.provider_settings =
                  {to_ascii_lowercase(trim(k)) : k \in DOMAIN given.provider_settings}
            /\ \A k \in DOMAIN left.provider_settings :
                  \E g \in DOMAIN given.provider_settings :
                      /\ to_ascii_lowercase(trim(g)) = k
                      /\ left.provider_settings[k] = given.provider_settings[g]
            /\ DOMAIN left.pricing_overrides = DOMAIN given.pricing_overrides
            /\ \A i \in DOMAIN given.pricing_overrides :
                  left.pricing_overrides[i] =
                      [given.pricing_overrides[i] EXCEPT !.provider = to_ascii_lowercase(trim(@))]
            /\ direct_call.ret.changed <=> (left # given)
            /\ direct_call.second = [config |-> left, changed |-> FALSE]

\* C27 witness: the configuration of the unit test, with a padded and a repeated
\* enabled name, a padded settings key and an override in another case.
C27_Witness ==
    /\ direct_call.op = "normalize_config"
    /\ direct_call.config.enabled_providers = <<OPENAI_PADDED, OPENAI, ANTHROPIC_UPPER>>
    /\ DOMAIN direct_call.config.provider_settings = {OPENAI_PADDED, ANTHROPIC_UPPER}
    /\ direct_call.config.pricing_overrides = <<OverrideFor(OPENAI_MIXED)>>
    /\ direct_call.ret.changed
    /\ direct_call.ret.config.enabled_providers = <<OPENAI, ANTHROPIC>>
    /\ DOMAIN direct_call.ret.config.provider_settings = {OPENAI, ANTHROPIC}
    /\ direct_call.ret.config.pricing_overrides = <<OverrideFor(OPENAI)>>
    /\ ~direct_call.second.changed

-----------------------------------------------------------------------------
(* A session of dialogs: confirmations, errors, Ctrl+C and a test started from a
   form (src/src/ui/run.rs) *)

CtrlC == [code |-> Char("c"), control |-> TRUE]

\* The keyring works, or fails (then a confirmed deletion shows an error).
DialogIos == {SessionIo, QuietIo(FALSE, TRUE)}

\* The keys of the session: Ctrl+C, Esc and Enter on every screen, the keys that
\* open a screen or a confirmation, the choice between No and Yes, and in a form
\* the details of a failure and, once in the session, the test.
DialogKeys(st) ==
    {CtrlC, Plain(Esc), Plain(Enter)}
    \cup CASE st.screen.kind = "Dashboard" ->
                 {Plain(Char("a")), Plain(Down), Plain(Char("q"))}
           [] st.screen.kind = "ProviderManager" ->
                 {Plain(Char("n")), Plain(Char("d")), Plain(Char("k"))}
           [] st.screen.kind = "ProviderForm" ->
                 {Plain(Char("i"))}
                 \cup (IF st.provider_logs = EmptyMap THEN {Plain(Char("t"))} ELSE {})
           [] st.screen.kind = "Confirm" -> {Plain(Left), Plain(Right)}
           [] OTHER -> {}

DialogKeyPress == \E key \in DialogKeys(state), io \in DialogIos : PressIn(key, io)

DialogNext == Setup \/ RunTui \/ DialogKeyPress \/ TaskFinishes \/ Harvest

SpecDialogs == Init /\ [][DialogNext]_vars

DialogKinds == {"Confirm", "ErrorDialog", "InfoDialog"}

\* C29: previous_screen is never a Confirm, ErrorDialog or InfoDialog screen, so
\* cancelling a confirmation or dismissing a dialog lands on the Dashboard, the
\* Provider Manager or a Provider Form.
C29_PreviousScreenIsNoDialog ==
    phase = "tui" => state.previous_screen.kind \notin DialogKinds

-----------------------------------------------------------------------------
(* Edits of the form while its test is in flight (src/src/ui/run.rs) *)

\* The draft still holds what the job of the slot tested: a test started from it
\* now would have the same provider, key and settings.
DraftAsTested ==
    LET job == provider_test_job[1]
        target == build_form_test_target(state, cfg, keyring, job.origin.mode, SessionIo)
    IN  /\ target.ok
        /\ target.name = job.task.provider
        /\ target.api_key = job.task.api_key
        /\ target.settings = job.task.settings

\* C28: whenever the harvest of a test started from the form makes the draft's
\* connection_status Success, no field of the draft was edited since the test was
\* started: the draft holds the name, key and settings that were tested.
C28_EditInvalidatesTest ==
    [][(/\ Harvested
        /\ provider_test_job[1].origin.kind = "Form"
        /\ state.provider_draft.connection_status # Success
        /\ state'.provider_draft.connection_status = Success) => DraftAsTested]_vars

\* C30: whenever a Provider Form is on screen and its draft's connection_status
\* is Testing, the slot holds a job that was started from that form; no form shows
\* Testing over an empty slot.
C30_TestingHasJob ==
    (/\ phase = "tui"
     /\ state.screen.kind = "ProviderForm"
     /\ state.provider_draft.connection_status = Testing)
        => /\ provider_test_job # <<>>
           /\ provider_test_job[1].origin = Form(state.screen.mode)

-----------------------------------------------------------------------------
(* The built-in price table *)

\* C32: with no overrides, a model named exactly as a built-in entry's pattern, for
\* that entry's provider, resolves to that entry's input and output prices.
C32_BuiltInEffective ==
    \A i \in DOMAIN built_in_pricing :
        (/\ pricing_call.called
         /\ pricing_call.overrides = <<>>
         /\ pricing_call.provider = built_in_pricing[i].provider
         /\ pricing_call.model = built_in_pricing[i].model_pattern)
          => /\ pricing_call.result # <<>>
             /\ SamePrices(pricing_call.result[1], built_in_pricing[i])

\* The entries that are effective: no earlier entry of the same provider has a
\* pattern inside theirs.
Unshadowed(i) ==
    \A j \in 1..(i - 1) :
        ~Matches(built_in_pricing[j], built_in_pricing[i].provider,
                 built_in_pricing[i].model_pattern)

\* What holds of the table: every entry that no earlier entry shadows resolves to
\* its own prices.
BuiltInUnshadowedEffective ==
    \A i \in DOMAIN built_in_pricing :
        (/\ pricing_call.called
         /\ pricing_call.overrides = <<>>
         /\ pricing_call.provider = built_in_pricing[i].provider
         /\ pricing_call.model = built_in_pricing[i].model_pattern
         /\ Unshadowed(i))
          => /\ pricing_call.result # <<>>
             /\ SamePrices(pricing_call.result[1], built_in_pricing[i])

-----------------------------------------------------------------------------
(* Deleting a provider or its key while its test runs *)

\* The cached test result or the log of provider P.
HasEntry(st, P) ==
    P \in DOMAIN st.provider_test_results \/ P \in DOMAIN st.provider_logs

\* C31: when the job in the slot is of a provider that has neither a cached result
\* nor a log (its "test_started" entry, logged when the job was queued, was removed
\* by a confirmed DeleteProvider or DeleteKey since), the harvest of that job creates
\* no entry for the provider in provider_test_results or provider_logs.
C31_DeletedStaysUntested ==
    [][(/\ phase = "tui"
        /\ provider_test_job # <<>>
        /\ ~HasEntry(state, provider_test_job[1].provider)
        /\ provider_test_job' = <<>>)
          => ~HasEntry(state', provider_test_job[1].provider)]_vars

-----------------------------------------------------------------------------
(* Typing into the provider form *)

\* Printable characters a provider name, a key or a URL may contain.
Characters == {"a", "e", "i", "t", "v", "x", "z", "T", "1", "-", " "}

\* The draft's String behind a ProviderFormField.
FieldText(draft, field) ==
    CASE field = "Name" -> draft.name
      [] field = "ApiKey" -> draft.api_key
      [] field = "BaseUrl" -> draft.base_url
      [] field = "OrganizationId" -> draft.organization_id
      [] OTHER -> <<>>

TextFields == {"Name", "ApiKey", "BaseUrl", "OrganizationId"}

\* A provider form is on screen and its active field is a text field.
TextFieldActive ==
    /\ phase = "tui"
    /\ state.running
    /\ state.screen.kind = "ProviderForm"
    /\ active_form_field(state, state.screen.mode) \in TextFields

\* handle_key on the press of character ch appends ch to the active field.
Typed(ch) ==
    LET field == active_form_field(state, state.screen.mode)
        after == handle_key(Char(ch), FALSE, World, SessionIo).state
    IN  /\ after.screen = state.screen
        /\ FieldText(after.provider_draft, field)
               = Append(FieldText(state.provider_draft, field), ch)

\* C33: in a provider form whose active field is a text field, the press of any
\* printable character appends that character to the active field.
C33_EveryCharacterTyped ==
    TextFieldActive => \A ch \in Characters : Typed(ch)

\* The characters that handle_key takes for commands before input_char sees them.
FormCommands == {"t", "v", "i", "x", "z"}

\* What holds: every printable character that is not a command of the form or of
\* the application is appended to the active text field.
OtherCharactersTyped ==
    TextFieldActive => \A ch \in Characters \ FormCommands : Typed(ch)

-----------------------------------------------------------------------------
(* The life of a test job under a loop that keeps iterating *)

\* The session.  The user, with anthropic configured by the command or with nothing
\* configured, opens the Provider Manager, tests the first provider there or from
\* its form, moves between the screens while the test runs, and may quit.
HarvestKeys(st) ==
    CASE st.screen.kind = "Dashboard" ->
            {Plain(Char("a")), Plain(Down), Plain(Enter), Plain(Char("q"))}
      [] st.screen.kind = "ProviderManager" ->
            {Plain(Char("t")), Plain(Enter), Plain(Esc)}
      [] st.screen.kind = "ProviderForm" -> {Plain(Char("t")), Plain(Esc)}
      [] st.screen.kind = "Confirm" -> {Plain(Right), Plain(Enter), Plain(Esc)}
      [] OTHER -> {Plain(Enter)}

HarvestKeyPress == \E key \in HarvestKeys(state) : Press(key)

HarvestNext == Setup \/ RunTui \/ HarvestKeyPress \/ TaskFinishes \/ Harvest

\* The top of the loop has a finished job to harvest: Harvest is enabled.
HarvestDue == phase = "tui" /\ state.running /\ JobFinished

\* The session with the scheduling the program has: the spawned task runs to its
\* end, and run_loop, whose poll returns after tick_rate at the latest, comes back to
\* its top, where a finished job is harvested.  The second condition is
\* WF_vars(Harvest): Harvest is enabled exactly when HarvestDue, and a Harvest step
\* leaves the slot empty, so weak fairness of Harvest says that HarvestDue does not
\* hold forever.
SpecHarvest ==
    /\ Init
    /\ [][HarvestNext]_vars
    /\ WF_vars(TaskFinishes)
    /\ []<>(~HarvestDue)

\* The slot holds another job than before, or none: the handle's progress apart.
SlotChanged ==
    /\ provider_test_job # <<>>
    /\ \/ provider_test_job' = <<>>
       \/ [provider_test_job'[1] EXCEPT !.handle = provider_test_job[1].handle]
              # provider_test_job[1]

\* C34: while the loop runs, a job in the slot leads to an empty slot; and the only
\* step that takes a job out of the slot is the harvest of a finished job, which
\* leaves the slot empty and a Success or Failure cached for the job's provider.
C34_JobEventuallyHarvested ==
    /\ (provider_test_job # <<>>) ~> (provider_test_job = <<>> \/ ~state.running)
    /\ [][SlotChanged =>
             /\ provider_test_job' = <<>>
             /\ provider_test_job[1].handle.finished
             /\ state.running
             /\ HarvestedProvider \in DOMAIN state'.provider_test_results
             /\ state'.provider_test_results[HarvestedProvider].kind
                    \in {"Success", "Failure"}]_vars

\* C34 witness: a second test of anthropic is in the slot after the first was
\* harvested as a success.
C34_Witness ==
    /\ phase = "tui"
    /\ state.running
    /\ provider_test_job # <<>>
    /\ provider_test_job[1].provider = ANTHROPIC
    /\ ANTHROPIC \in DOMAIN state.provider_test_results
    /\ state.provider_test_results[ANTHROPIC] = Success

-----------------------------------------------------------------------------
(* Failures while a deletion or a form is saved *)

\* The step is the Enter on "Confirm" of a DeleteProvider confirmation whose
\* delete_api_key fails.
DeleteProviderKeyFailed ==
    /\ phase = "tui"
    /\ state.screen.kind = "Confirm"
    /\ state.screen.action.kind = "DeleteProvider"
    /\ state.confirm_selected = 1
    /\ state'.screen = ErrorDialog
    /\ state'.error_message = Msg("Failed to delete key: {e}", <<>>, "")

\* C35: a confirmed DeleteProvider whose key deletion fails leaves the in-memory
\* configuration, provider_test_results and provider_logs as they were.
C35_FailedDeleteChangesNothing ==
    [][DeleteProviderKeyFailed =>
          /\ cfg' = cfg
          /\ state'.provider_test_results = state.provider_test_results
          /\ state'.provider_logs = state.provider_logs]_vars

\* What holds: the keyring and the screens below the dialog are as they were.
FailedDeleteKeepsKey ==
    [][DeleteProviderKeyFailed =>
          /\ keyring' = keyring
          /\ state'.previous_screen = state.screen
          /\ state'.running = state.running]_vars

\* What the keyring and the config file answer while a form is saved: both work,
\* the keyring fails, or the file cannot be written.
SubmitIos == {SessionIo, QuietIo(FALSE, TRUE), QuietIo(TRUE, FALSE)}

\* The status line after a submit that saved the form.
SavedTexts ==
    {"Provider '{provider_name}' saved disabled: run connection test first.",
     "Provider '{}' added", "Provider '{}' updated"}

\* The session.  The user, with anthropic configured by the command or with nothing
\* configured, opens the form of the first provider or of a new one, types "k" into
\* the empty name or key, moves between the fields, toggles, saves or leaves; the
\* session ends in the Provider Manager after the first form that was saved.
SubmitKeys(st) ==
    CASE st.screen.kind = "Dashboard" -> {Plain(Char("a")), Plain(Down), Plain(Enter)}
      [] st.screen.kind = "ProviderManager" ->
            IF st.status.text \in SavedTexts THEN {}
            ELSE {Plain(Enter), Plain(Char("n"))}
      [] st.screen.kind = "ProviderForm" ->
            {Plain(Tab), Plain(Enter), Plain(Esc)}
            \cup (IF active_form_field(st, st.screen.mode) = "Enabled"
                  THEN {Plain(Char("e"))}
                  ELSE IF FieldText(st.provider_draft,
                                    active_form_field(st, st.screen.mode)) = <<>>
                  THEN {Plain(Char("k"))} ELSE {})
      [] OTHER -> {Plain(Enter)}

SubmitKeyPress == \E key \in SubmitKeys(state), io \in SubmitIos : PressIn(key, io)

SubmitNext == Setup \/ RunTui \/ SubmitKeyPress

SpecSubmit == Init /\ [][SubmitNext]_vars

\* The messages of the error dialogs of submit_provider_form.
SubmitErrors ==
    {"Provider name is required", "API key is required for new providers.",
     "Base URL is not valid", "Failed to save key: {e}",
     "Cannot enable provider without key. Add API key first.",
     "Failed reading keychain: {e}", "Failed to save config: {e}"}

\* The step is an Enter in a provider form that ends in an error dialog.
SubmitFailed ==
    /\ phase = "tui"
    /\ state.screen.kind = "ProviderForm"
    /\ state'.screen = ErrorDialog
    /\ state'.error_message.text \in SubmitErrors

\* C36: a submit that ends in an error dialog leaves the in-memory configuration and
\* the stored API keys as they were.
C36_FailedSubmitChangesNothing ==
    [][SubmitFailed => cfg' = cfg /\ keyring' = keyring]_vars

\* What holds: a submit stopped by the validation of the form changes neither.
ValidationErrors ==
    {"Provider name is required", "API key is required for new providers.",
     "Base URL is not valid"}

RejectedSubmitChangesNothing ==
    [][(SubmitFailed /\ state'.error_message.text \in ValidationErrors)
          => cfg' = cfg /\ keyring' = keyring]_vars

-----------------------------------------------------------------------------
(* The list of enabled providers *)

\* No two entries of the list are equal ignoring ASCII case.
NoDuplicates(list) ==
    \A i, j \in DOMAIN list : i # j => ~eq_ignore_ascii_case(list[i], list[j])

\* The step pushes one name that was not in the list, in any case.
EnabledStep ==
    /\ Len(cfg'.enabled_providers) = Len(cfg.enabled_providers) + 1
    /\ SubSeq(cfg'.enabled_providers, 1, Len(cfg.enabled_providers)) = cfg.enabled_providers
    /\ ~IsEnabled(cfg, cfg'.enabled_providers[Len(cfg'.enabled_providers)])

\* The step removes every entry equal to one name ignoring case.
DisabledStep ==
    \E i \in DOMAIN cfg.enabled_providers :
        cfg'.enabled_providers = retain_other(cfg.enabled_providers, cfg.enabled_providers[i])

\* C37: enabled_providers never holds two entries that are equal ignoring ASCII
\* case; every step that changes the list either pushes a name of which no entry
\* was in the list, or removes all entries of one name.
C37_EnabledOnce ==
    /\ [](NoDuplicates(cfg.enabled_providers))
    /\ [][cfg'.enabled_providers # cfg.enabled_providers
              => EnabledStep \/ DisabledStep]_vars

\* C37 witness: the form of anthropic, which the command had enabled, was saved with
\* the toggle on, and the list holds anthropic once.
C37_Witness ==
    /\ phase = "tui"
    /\ state.status = Msg("Provider '{}' updated", ANTHROPIC, "")
    /\ cfg.enabled_providers = <<ANTHROPIC>>

-----------------------------------------------------------------------------
(* Confirmation of the destructive actions *)

\* The step brings a confirmation to the screen.
ConfirmOpens ==
    /\ phase = "tui"
    /\ state'.screen.kind = "Confirm"
    /\ state'.screen # state.screen

\* The confirmation of `kind` (for `provider`, unless it is Quit) is on screen with
\* "Confirm" selected.
Confirming(kind, provider) ==
    /\ state.screen.kind = "Confirm"
    /\ state.screen.action.kind = kind
    /\ kind # "Quit" => state.screen.action.provider = provider
    /\ state.confirm_selected = 1

\* Every confirmation comes to the screen with "Cancel" selected.
OpensOnCancel == [][ConfirmOpens => state'.confirm_selected = 0]_vars

\* The loop stops, a provider's settings are removed and a stored key is deleted
\* only by a step from the matching confirmation with "Confirm" selected.
OnlyWhenConfirmed ==
    [][phase = "tui" =>
          /\ (state.running /\ ~state'.running) => Confirming("Quit", <<>>)
          /\ \A P \in DOMAIN cfg.provider_settings \ DOMAIN cfg'.provider_settings :
                Confirming("DeleteProvider", P)
          /\ \A P \in DOMAIN keyring \ DOMAIN keyring' :
                Confirming("DeleteProvider", P) \/ Confirming("DeleteKey", P)]_vars

\* What handle_key leaves as it is on the press of `code`, whatever the keyring and
\* the config file answer.
Untouched(code) ==
    \A io \in DialogIos :
        LET after == handle_key(code, FALSE, World, io) IN
        /\ after.state.running = state.running
        /\ after.cfg = cfg
        /\ after.keyring = keyring
        /\ after.state.provider_test_results = state.provider_test_results
        /\ after.state.provider_logs = state.provider_logs

\* On a confirmation, Esc, and Enter with "Cancel" selected, change nothing.
CancelChangesNothing ==
    (phase = "tui" /\ state.running /\ state.screen.kind = "Confirm")
        => /\ Untouched(Esc)
           /\ state.confirm_selected = 0 => Untouched(Enter)

\* C38: every confirmation opens with "Cancel" selected; the loop stops, a provider
\* is removed and a key is deleted only from the matching confirmation with
\* "Confirm" selected; Esc, and Enter on "Cancel", change neither running, the
\* configuration, the stored keys, the test results nor the logs.
C38_ExplicitConfirmation ==
    /\ OpensOnCancel
    /\ OnlyWhenConfirmed
    /\ [](CancelChangesNothing)

====
